---------------------------- MODULE Spec2Model ----------------------------
(***************************************************************************)
(* Pricing / reconciliation engine of the MercadoLibre stock calculator.   *)
(*                                                                         *)
(* Numbers are exact rationals [n |-> numerator, d |-> denominator > 0]    *)
(* in lowest terms: money in currency units, percentages as fractions.     *)
(* A value that may be missing (None / NaN) is a sequence of length <= 1.  *)
(* Text is a sequence of one-character strings; an accented letter is      *)
(* written "<letter>_acute" and the combining accent "COMB_ACUTE".         *)
(***************************************************************************)
EXTENDS Integers, Sequences, FiniteSets, TLC

VARIABLES
    pc,        \* position of the run
    args,      \* arguments of a direct call of the solver or of a normalizer
    ret,       \* what that call returned
    raw_ml,    \* the listing sheet as read, before leer_ml validates it
    df_ml,     \* the listing frame leer_ml returned
    df_odoo,   \* the catalog frame
    opts,      \* keyword arguments of calcular
    df,        \* the joined frame handed to calcular
    df_calc,   \* the frame calcular returned
    locals,    \* per row, the values calcular computed on the way
    raw_odoo,  \* the catalog sheet as read, before leer_odoo validates it
    lecturas,  \* what each call of a reader did: its steps and its outcome
    df_resultado  \* the frame preparar_resultado_final returned

vars == <<pc, args, ret, raw_ml, df_ml, df_odoo, opts, df, df_calc, locals, raw_odoo, lecturas, df_resultado>>

(***************************************************************************)
(* Missing values                                                          *)
(***************************************************************************)
None == <<>>
Some(v) == <<v>>
IsNa(x) == x = None
Val(x) == x[1]

(***************************************************************************)
(* Exact rational arithmetic                                               *)
(***************************************************************************)
Abs(a) == IF a < 0 THEN -a ELSE a

RECURSIVE GCD(_, _)
GCD(a, b) == IF b = 0 THEN a ELSE GCD(b, a % b)

LCM(a, b) == (a \div GCD(a, b)) * b

Rat(n, d) ==
    LET s == IF d < 0 THEN -1 ELSE 1
        g == GCD(Abs(n), Abs(d))
    IN  [n |-> (s * n) \div g, d |-> (s * d) \div g]

Zero == [n |-> 0, d |-> 1]
One == [n |-> 1, d |-> 1]

RAdd(x, y) ==
    LET l == LCM(x.d, y.d)
    IN  Rat(x.n * (l \div x.d) + y.n * (l \div y.d), l)

RNeg(x) == [n |-> -x.n, d |-> x.d]
RSub(x, y) == RAdd(x, RNeg(y))

RMul(x, y) ==
    LET g1 == GCD(Abs(x.n), y.d)
        g2 == GCD(Abs(y.n), x.d)
    IN  IF x.n = 0 \/ y.n = 0 THEN Zero
        ELSE Rat((x.n \div g1) * (y.n \div g2), (x.d \div g2) * (y.d \div g1))

RInv(x) == Rat(x.d, x.n)
RDiv(x, y) == RMul(x, RInv(y))

RLt(x, y) == RSub(x, y).n < 0
RLe(x, y) == RSub(x, y).n <= 0

\* Money given in cents, a percentage given in thousandths, a magnitude in hundredths.
Money(cents) == Rat(cents, 100)
Pct(permille) == Rat(permille, 1000)
Hundredths(h) == Rat(h, 100)

\* round(2): the nearest multiple of 0.01, a tie going to the even one.
Round2(x) ==
    LET q == x.n \div x.d
        r == x.n % x.d
        c == q * 100 + (r * 100) \div x.d
        rem == (r * 100) % x.d
        up == \/ 2 * rem > x.d
              \/ 2 * rem = x.d /\ c % 2 = 1
    IN  Rat(IF up THEN c + 1 ELSE c, 100)

(***************************************************************************)
(* utils.calcular_precio_publicacion_ml                                    *)
(***************************************************************************)
\* float(x or 0.0): None and 0 both become 0.0.
FloatOrZero(x) == IF IsNa(x) THEN Zero ELSE Val(x)

SolverFailure ==
    [precio_publicacion |-> Zero, cargo_por_vender |-> Zero,
     costo_por_ofrecer_cuotas |-> Zero, retenciones |-> Zero,
     recibis |-> Zero, denominador_invalido |-> TRUE]

\* A solver that forgets the fixed charge in the numerator.
calcular_precio_publicacion_ml_nofixed(tarifa_neta, porcentaje_comision, porcentaje_financiacion, porcentaje_retenciones, costo_fijo) ==
    LET tn == FloatOrZero(tarifa_neta)
        pcom == FloatOrZero(porcentaje_comision)
        pfin == FloatOrZero(porcentaje_financiacion)
        pret == FloatOrZero(porcentaje_retenciones)
        cf == FloatOrZero(costo_fijo)
        denominador == RSub(One, RAdd(RAdd(pcom, pfin), pret))
        precio == RDiv(tn, denominador)
        cargo == RAdd(RMul(precio, pcom), cf)
        cuotas == RMul(precio, pfin)
        reten == RMul(precio, pret)
    IN  IF RLe(denominador, Zero) THEN SolverFailure
        ELSE [precio_publicacion |-> precio, cargo_por_vender |-> cargo,
              costo_por_ofrecer_cuotas |-> cuotas, retenciones |-> reten,
              recibis |-> RSub(precio, RAdd(RAdd(cargo, cuotas), reten)),
              denominador_invalido |-> FALSE]

\* A solver whose feasibility test is strict (denominador < 0).
calcular_precio_publicacion_ml_strict(tarifa_neta, porcentaje_comision, porcentaje_financiacion, porcentaje_retenciones, costo_fijo) ==
    LET tn == FloatOrZero(tarifa_neta)
        pcom == FloatOrZero(porcentaje_comision)
        pfin == FloatOrZero(porcentaje_financiacion)
        pret == FloatOrZero(porcentaje_retenciones)
        cf == FloatOrZero(costo_fijo)
        denominador == RSub(One, RAdd(RAdd(pcom, pfin), pret))
        precio == IF denominador = Zero THEN RAdd(tn, cf)
                  ELSE RDiv(RAdd(tn, cf), denominador)
        cargo == RAdd(RMul(precio, pcom), cf)
        cuotas == RMul(precio, pfin)
        reten == RMul(precio, pret)
    IN  IF RLt(denominador, Zero) THEN SolverFailure
        ELSE [precio_publicacion |-> precio, cargo_por_vender |-> cargo,
              costo_por_ofrecer_cuotas |-> cuotas, retenciones |-> reten,
              recibis |-> RSub(precio, RAdd(RAdd(cargo, cuotas), reten)),
              denominador_invalido |-> FALSE]

\* A solver that leaves the withholdings out of the denominator.
calcular_precio_publicacion_ml_sinret(tarifa_neta, porcentaje_comision, porcentaje_financiacion, porcentaje_retenciones, costo_fijo) ==
    LET tn == FloatOrZero(tarifa_neta)
        pcom == FloatOrZero(porcentaje_comision)
        pfin == FloatOrZero(porcentaje_financiacion)
        pret == FloatOrZero(porcentaje_retenciones)
        cf == FloatOrZero(costo_fijo)
        denominador == RSub(One, RAdd(pcom, pfin))
        precio == RDiv(RAdd(tn, cf), denominador)
        cargo == RAdd(RMul(precio, pcom), cf)
        cuotas == RMul(precio, pfin)
        reten == RMul(precio, pret)
    IN  IF RLe(denominador, Zero) THEN SolverFailure
        ELSE [precio_publicacion |-> precio, cargo_por_vender |-> cargo,
              costo_por_ofrecer_cuotas |-> cuotas, retenciones |-> reten,
              recibis |-> RSub(precio, RAdd(RAdd(cargo, cuotas), reten)),
              denominador_invalido |-> FALSE]

calcular_precio_publicacion_ml(tarifa_neta, porcentaje_comision, porcentaje_financiacion, porcentaje_retenciones, costo_fijo) ==
    LET tn == FloatOrZero(tarifa_neta)
        pcom == FloatOrZero(porcentaje_comision)
        pfin == FloatOrZero(porcentaje_financiacion)
        pret == FloatOrZero(porcentaje_retenciones)
        cf == FloatOrZero(costo_fijo)
        total_porcentual == RAdd(RAdd(pcom, pfin), pret)
        denominador == RSub(One, total_porcentual)
        precio_publicacion == RDiv(RAdd(tn, cf), denominador)
        cargo_por_vender == RAdd(RMul(precio_publicacion, pcom), cf)
        costo_por_ofrecer_cuotas == RMul(precio_publicacion, pfin)
        retenciones == RMul(precio_publicacion, pret)
        recibis == RSub(precio_publicacion,
                        RAdd(RAdd(cargo_por_vender, costo_por_ofrecer_cuotas),
                             retenciones))
    IN  IF RLe(denominador, Zero) THEN SolverFailure
        ELSE [precio_publicacion |-> precio_publicacion,
              cargo_por_vender |-> cargo_por_vender,
              costo_por_ofrecer_cuotas |-> costo_por_ofrecer_cuotas,
              retenciones |-> retenciones,
              recibis |-> recibis,
              denominador_invalido |-> FALSE]

(***************************************************************************)
(* Direct calls of the solver: the inputs                                  *)
(***************************************************************************)
\* The worked example of test_calcular_precio_publicacion_ml.
EjemploTarifaNeta == 1251310
EjemploComision == 145
EjemploFinanciacion == 40
EjemploRetenciones == 10
EjemploCostoFijo == 219000
EjemploPrecio == 1826472

\* Input grids: multiples of a step, up to a bound.
TarifaStep == 18405
FijoMLStep == 109500
MaxTarifaSteps == 2
MaxComisionSteps == 6
MaxFinanciacionSteps == 3
MaxRetencionesSteps == 1
MaxFijoMLSteps == 2

OptionalOf(S) == {None} \cup {Some(v) : v \in S}

SolverTarifas ==
    {Money(k * TarifaStep) : k \in 0..MaxTarifaSteps} \cup {Money(EjemploTarifaNeta)}
SolverComisiones == {Pct(k * EjemploComision) : k \in 0..MaxComisionSteps}
SolverFinanciaciones == {Pct(k * EjemploFinanciacion) : k \in 0..MaxFinanciacionSteps}
SolverRetenciones == {Pct(k * EjemploRetenciones) : k \in 0..MaxRetencionesSteps}
SolverFijos == {Money(k * FijoMLStep) : k \in 0..MaxFijoMLSteps}

SolverArgs ==
    [tarifa_neta : OptionalOf(SolverTarifas),
     porcentaje_comision : OptionalOf(SolverComisiones),
     porcentaje_financiacion : OptionalOf(SolverFinanciaciones),
     porcentaje_retenciones : OptionalOf(SolverRetenciones),
     costo_fijo : OptionalOf(SolverFijos)]

NoArgs == [tarifa_neta |-> None, porcentaje_comision |-> None,
           porcentaje_financiacion |-> None, porcentaje_retenciones |-> None,
           costo_fijo |-> None]
NoOpts == [base_financiacion |-> "tarifa", incluir_impuestos |-> FALSE,
           tipo_recargo_envio |-> None, valor_recargo_envio |-> [kind |-> "none", v |-> Zero]]
NoFrame == [columns |-> {}, rows |-> <<>>]

InitSolver ==
    /\ pc = "call"
    /\ args \in SolverArgs
    /\ ret = SolverFailure
    /\ raw_ml = NoFrame /\ df_ml = NoFrame /\ df_odoo = NoFrame
    /\ opts = NoOpts
    /\ df = NoFrame
    /\ df_calc = NoFrame
    /\ raw_odoo = NoFrame /\ lecturas = <<>> /\ df_resultado = NoFrame
    /\ locals = <<>>

Solve ==
    /\ pc = "call"
    /\ ret' = calcular_precio_publicacion_ml(args.tarifa_neta,
                  args.porcentaje_comision, args.porcentaje_financiacion,
                  args.porcentaje_retenciones, args.costo_fijo)
    /\ pc' = "returned"
    /\ UNCHANGED <<args, raw_ml, df_ml, df_odoo, opts, df, df_calc, locals, raw_odoo, lecturas, df_resultado>>

NextSolver == Solve

SpecSolver == InitSolver /\ [][NextSolver]_vars

(***************************************************************************)
(* Properties of the solver (checked under SpecSolver)                     *)
(***************************************************************************)
ArgTarifa == FloatOrZero(args.tarifa_neta)
ArgComision == FloatOrZero(args.porcentaje_comision)
ArgFinanciacion == FloatOrZero(args.porcentaje_financiacion)
ArgRetenciones == FloatOrZero(args.porcentaje_retenciones)
ArgFijo == FloatOrZero(args.costo_fijo)
ArgTotalPct == RAdd(RAdd(ArgComision, ArgFinanciacion), ArgRetenciones)
ArgDenominador == RSub(One, ArgTotalPct)

ArgsAreExample ==
    /\ args.tarifa_neta = Some(Money(EjemploTarifaNeta))
    /\ args.porcentaje_comision = Some(Pct(EjemploComision))
    /\ args.porcentaje_financiacion = Some(Pct(EjemploFinanciacion))
    /\ args.porcentaje_retenciones = Some(Pct(EjemploRetenciones))
    /\ args.costo_fijo = Some(Money(EjemploCostoFijo))

RetDeductions ==
    RAdd(RAdd(ret.cargo_por_vender, ret.costo_por_ofrecer_cuotas), ret.retenciones)

\* C1: solver round trip. For a non-negative target, fixed charge and
\* percentages whose sum is below 1 the solver succeeds, and the net proceeds
\* it returns, which are the listing price less the three charges, equal the
\* target exactly.
C1_SolverRoundTrip ==
    (/\ pc = "returned"
     /\ RLe(Zero, ArgTarifa) /\ RLe(Zero, ArgFijo)
     /\ RLe(Zero, ArgComision) /\ RLe(Zero, ArgFinanciacion)
     /\ RLe(Zero, ArgRetenciones)
     /\ RLt(ArgTotalPct, One))
    => /\ ~ret.denominador_invalido
       /\ ret.recibis = RSub(ret.precio_publicacion, RetDeductions)
       /\ ret.recibis = ArgTarifa

C1_Witness ==
    /\ pc = "returned"
    /\ ArgsAreExample
    /\ ~ret.denominador_invalido
    /\ ret.recibis = Money(EjemploTarifaNeta)

\* C2: solver infeasibility. When the three percentages add up to 1 or more
\* the solver returns the failure indicator and five outputs equal to 0.0,
\* whatever the target and the fixed charge; when they add up to less than 1
\* the failure indicator is False.
C2_SolverInfeasibility ==
    pc = "returned" =>
        /\ RLe(One, ArgTotalPct) => ret = SolverFailure
        /\ RLt(ArgTotalPct, One) => ~ret.denominador_invalido

C2_Witness ==
    /\ pc = "returned"
    /\ ArgTotalPct = One
    /\ RLt(Zero, ArgTarifa) /\ RLt(Zero, ArgFijo)
    /\ ret.denominador_invalido
    /\ ret.precio_publicacion = Zero /\ ret.recibis = Zero

\* C3: closed form. With a positive denominator the listing price is
\* (target + fixed charge) / denominator, the commission charge is price *
\* commission + fixed charge, the financing and withholding charges are price
\* * their percentage; the worked example gives 18264.72 to the cent.
C3_ClosedForm ==
    (pc = "returned" /\ RLt(Zero, ArgDenominador)) =>
        LET listing_price == RDiv(RAdd(ArgTarifa, ArgFijo), ArgDenominador)
        IN  /\ ret.precio_publicacion = listing_price
            /\ ret.cargo_por_vender = RAdd(RMul(listing_price, ArgComision), ArgFijo)
            /\ ret.costo_por_ofrecer_cuotas = RMul(listing_price, ArgFinanciacion)
            /\ ret.retenciones = RMul(listing_price, ArgRetenciones)
            /\ ArgsAreExample => Round2(ret.precio_publicacion) = Money(EjemploPrecio)

C3_Witness ==
    /\ pc = "returned"
    /\ ArgsAreExample
    /\ Round2(ret.precio_publicacion) = Money(EjemploPrecio)
    /\ ret.precio_publicacion # Money(EjemploPrecio)

(***************************************************************************)
(* Text                                                                    *)
(***************************************************************************)
UpperCase ==
    <<"A", "B", "C", "D", "E", "F", "G", "H", "I", "J", "K", "L", "M",
      "N", "O", "P", "Q", "R", "S", "T", "U", "V", "W", "X", "Y", "Z">>
LowerCase ==
    <<"a", "b", "c", "d", "e", "f", "g", "h", "i", "j", "k", "l", "m",
      "n", "o", "p", "q", "r", "s", "t", "u", "v", "w", "x", "y", "z">>
AcuteLetters == <<"a_acute", "e_acute", "i_acute", "o_acute", "u_acute">>
AcuteBases == <<"a", "e", "i", "o", "u">>
Whitespace == {" ", "\t", "\n"}

IndexIn(s, c) == CHOOSE i \in 1..Len(s) : s[i] = c
Occurs(s, c) == \E i \in 1..Len(s) : s[i] = c

\* str.lower() on one character.
LowerChar(c) == IF Occurs(UpperCase, c) THEN LowerCase[IndexIn(UpperCase, c)] ELSE c
Lower(t) == [i \in 1..Len(t) |-> LowerChar(t[i])]

\* unicodedata.normalize('NFKD', .) on one character: an accented letter
\* becomes its base letter followed by the combining accent.
NFKDChar(c) ==
    IF Occurs(AcuteLetters, c)
    THEN <<AcuteBases[IndexIn(AcuteLetters, c)], "COMB_ACUTE">>
    ELSE <<c>>

RECURSIVE NFKD(_)
NFKD(t) == IF t = <<>> THEN <<>> ELSE NFKDChar(Head(t)) \o NFKD(Tail(t))

\* unicodedata.combining(c) != 0
Combining(c) == c = "COMB_ACUTE"
NotCombining(c) == ~Combining(c)

RECURSIVE LStrip(_)
LStrip(t) == IF t # <<>> /\ Head(t) \in Whitespace THEN LStrip(Tail(t)) ELSE t

RECURSIVE RStrip(_)
RStrip(t) ==
    IF t # <<>> /\ t[Len(t)] \in Whitespace THEN RStrip(SubSeq(t, 1, Len(t) - 1)) ELSE t

Strip(t) == RStrip(LStrip(t))

StartsWith(t, prefix) ==
    Len(t) >= Len(prefix) /\ SubSeq(t, 1, Len(prefix)) = prefix

Contains(t, part) ==
    \E i \in 0..(Len(t) - Len(part)) : SubSeq(t, i + 1, i + Len(part)) = part

TxtNinguno ==
    <<"N", "i", "n", "g", "u", "n", "o">>
TxtFijo ==
    <<"F", "i", "j", "o", " ", "(", "$", ")">>
TxtPorcentaje ==
    <<"P", "o", "r", "c", "e", "n", "t", "a", "j", "e", " ", "(", "%", ")">>
TxtNingunoLower ==
    <<"n", "i", "n", "g", "u", "n", "o">>
TxtFijoPrefix ==
    <<"f", "i", "j", "o">>
TxtPorcentajePrefix ==
    <<"p", "o", "r", "c", "e", "n", "t", "a", "j", "e">>
TxtEnviosGratis ==
    <<"m", "e", "r", "c", "a", "d", "o", " ", "e", "n", "v", "i", "o", "s", " ", "g", "r", "a", "t", "i", "s">>
TxtEnviosPorMiCuenta ==
    <<"m", "e", "r", "c", "a", "d", "o", " ", "e", "n", "v", "i", "o", "s", " ", "p", "o", "r", " ", "m", "i", " ", "c", "u", "e", "n", "t", "a">>
ShipPorMiCuenta ==
    <<"M", "e", "r", "c", "a", "d", "o", " ", "E", "n", "v", "i_acute", "o", "s", " ", "p", "o", "r", " ", "m", "i", " ", "c", "u", "e", "n", "t", "a">>
ShipClasico ==
    <<"M", "e", "r", "c", "a", "d", "o", " ", "E", "n", "v", "i_acute", "o", "s", " ", "C", "l", "a_acute", "s", "i", "c", "o">>
ShipFlex ==
    <<"M", "e", "r", "c", "a", "d", "o", " ", "e", "n", "v", "i_acute", "o", "s", " ", "P", "O", "R", " ", "M", "I", " ", "C", "U", "E", "N", "T", "A", " ", "(", "F", "l", "e", "x", ")">>
ShipRetiro ==
    <<"R", "e", "t", "i", "r", "o", " ", "e", "n", " ", "t", "i", "e", "n", "d", "a">>
ShipGratis ==
    <<"M", "e", "r", "c", "a", "d", "o", " ", "E", "n", "v", "i_acute", "o", "s", " ", "G", "r", "a", "t", "i", "s">>
ShipGratisPadded ==
    <<" ", "M", "E", "R", "C", "A", "D", "O", " ", "E", "N", "V", "I", "O", "S", " ", "G", "R", "A", "T", "I", "S", " ">>
ShipEmpty ==
    <<>>

(***************************************************************************)
(* data_processor.unir_y_validar: the flags of a joined row                *)
(***************************************************************************)
FlagSinMatch == "SKU no encontrado en Odoo"
FlagPrecioFaltante == "Precio Tarifa faltante"
FlagStockFaltante == "Stock faltante"
Separador == "; "
\* 'Porcentajes ML sin solución (denominador <= 0)'
MensajeSinSolucion == "Porcentajes ML sin solucion (denominador <= 0)"

\* Notes are the sequence of their pieces: flags and the separators between them.
RECURSIVE StripSeparadores(_)
StripSeparadores(notas) ==
    IF notas # <<>> /\ Head(notas) = Separador THEN StripSeparadores(Tail(notas))
    ELSE IF notas # <<>> /\ notas[Len(notas)] = Separador
         THEN StripSeparadores(SubSeq(notas, 1, Len(notas) - 1))
         ELSE notas

\* The flags without the final str.strip('; ').
NotasDelJoin_sinstrip(codigo, precio_tarifa, cantidad) ==
    LET sin_match == IF IsNa(codigo) THEN <<FlagSinMatch>> ELSE <<>>
        sin_precio == IF IsNa(precio_tarifa) \/ precio_tarifa = Some(Zero)
                      THEN <<Separador, FlagPrecioFaltante>> ELSE <<>>
        sin_stock == IF IsNa(cantidad) THEN <<Separador, FlagStockFaltante>> ELSE <<>>
    IN  sin_match \o sin_precio \o sin_stock

\* The price flag assigned over the notes instead of appended to them.
NotasDelJoin_precio_overwrite(codigo, precio_tarifa, cantidad) ==
    LET sin_match == IF IsNa(codigo) THEN <<FlagSinMatch>> ELSE <<>>
        con_precio == IF IsNa(precio_tarifa) \/ precio_tarifa = Some(Zero)
                      THEN <<Separador, FlagPrecioFaltante>> ELSE sin_match
        sin_stock == IF IsNa(cantidad) THEN <<Separador, FlagStockFaltante>> ELSE <<>>
    IN  StripSeparadores(con_precio \o sin_stock)

\* The flags of one joined row: assigned, appended, appended, then stripped.
NotasDelJoin(codigo, precio_tarifa, cantidad) ==
    LET sin_match == IF IsNa(codigo) THEN <<FlagSinMatch>> ELSE <<>>
        sin_precio == IF IsNa(precio_tarifa) \/ precio_tarifa = Some(Zero)
                      THEN <<Separador, FlagPrecioFaltante>> ELSE <<>>
        sin_stock == IF IsNa(cantidad) THEN <<Separador, FlagStockFaltante>> ELSE <<>>
    IN  StripSeparadores(sin_match \o sin_precio \o sin_stock)

(***************************************************************************)
(* data_processor.calcular                                                 *)
(***************************************************************************)
ColShippingEspacio == "SHIPPING_METHOD "
ColShipping == "SHIPPING_METHOD"
ColRetenciones == "retenciones_pct"

\* Series.fillna(0.0) after pd.to_numeric
FillNaZero(x) == IF IsNa(x) THEN Zero ELSE Val(x)
\* Series.fillna('')
FillNaEmpty(x) == IF IsNa(x) THEN <<>> ELSE Val(x)

\* next(col for col in ['SHIPPING_METHOD ', 'SHIPPING_METHOD'] if col in columns, None)
shipping_column(columns) ==
    IF ColShippingEspacio \in columns THEN Some(ColShippingEspacio)
    ELSE IF ColShipping \in columns THEN Some(ColShipping)
    ELSE None

_normalizar_estado_envio(valor) ==
    LET valor_normalizado == NFKD(valor)
        valor_sin_tildes == SelectSeq(valor_normalizado, NotCombining)
    IN  Lower(Strip(valor_sin_tildes))

estados_con_recargo == {TxtEnviosGratis, TxtEnviosPorMiCuenta}

\* A mask that does not look for the shipping column.
aplica_envio_nocolumn(columns, row) ==
    _normalizar_estado_envio(FillNaEmpty(row.shipping)) \in estados_con_recargo

aplica_envio(columns, row) ==
    IF IsNa(shipping_column(columns)) THEN FALSE
    ELSE _normalizar_estado_envio(FillNaEmpty(row.shipping)) \in estados_con_recargo

\* valor_recargo_envio: None, a number, or a text that is not a number.
SinValor == [kind |-> "none", v |-> Zero]
Numero(x) == [kind |-> "num", v |-> x]
TextoNoNumerico == [kind |-> "text", v |-> Zero]

\* bool(valor_recargo_envio)
Truthy(valor) == valor.kind = "text" \/ (valor.kind = "num" /\ valor.v # Zero)
\* float(valor_recargo_envio), 0.0 on TypeError / ValueError
FloatOrCatch(valor) == IF valor.kind = "num" THEN valor.v ELSE Zero

\* tipo_recargo_envio.lower() if it is a str, else 'ninguno'
tipo_envio(tipo_recargo_envio) ==
    IF IsNa(tipo_recargo_envio) THEN TxtNingunoLower ELSE Lower(Val(tipo_recargo_envio))

\* A surcharge that always reads the percentage as a whole percent.
recargo_envio_siempre100(tipo_recargo_envio, valor_recargo_envio, aplica, tarifa_neta_base) ==
    IF StartsWith(tipo_envio(tipo_recargo_envio), TxtFijoPrefix) /\ Truthy(valor_recargo_envio)
    THEN IF aplica THEN FloatOrCatch(valor_recargo_envio) ELSE Zero
    ELSE IF StartsWith(tipo_envio(tipo_recargo_envio), TxtPorcentajePrefix) /\ Truthy(valor_recargo_envio)
    THEN IF aplica
         THEN RMul(tarifa_neta_base, RDiv(FloatOrCatch(valor_recargo_envio), Rat(100, 1)))
         ELSE Zero
    ELSE Zero

\* A fixed surcharge that is added to the tariff base instead of replacing it.
recargo_envio_fijomasbase(tipo_recargo_envio, valor_recargo_envio, aplica, tarifa_neta_base) ==
    IF StartsWith(tipo_envio(tipo_recargo_envio), TxtFijoPrefix) /\ Truthy(valor_recargo_envio)
    THEN IF aplica THEN RAdd(tarifa_neta_base, FloatOrCatch(valor_recargo_envio)) ELSE Zero
    ELSE IF StartsWith(tipo_envio(tipo_recargo_envio), TxtPorcentajePrefix) /\ Truthy(valor_recargo_envio)
    THEN LET pct == FloatOrCatch(valor_recargo_envio)
             pct_envio == IF RLt(One, pct) THEN RDiv(pct, Rat(100, 1)) ELSE pct
         IN  IF aplica THEN RMul(tarifa_neta_base, pct_envio) ELSE Zero
    ELSE Zero

\* The value of 'Recargo envío ($)' of one row before rounding.
recargo_envio(tipo_recargo_envio, valor_recargo_envio, aplica, tarifa_neta_base) ==
    IF StartsWith(tipo_envio(tipo_recargo_envio), TxtFijoPrefix) /\ Truthy(valor_recargo_envio)
    THEN LET monto_fijo == FloatOrCatch(valor_recargo_envio)
         IN  IF aplica THEN (IF monto_fijo # Zero THEN monto_fijo ELSE Zero) ELSE Zero
    ELSE IF StartsWith(tipo_envio(tipo_recargo_envio), TxtPorcentajePrefix) /\ Truthy(valor_recargo_envio)
    THEN LET pct == FloatOrCatch(valor_recargo_envio)
             pct_envio == IF RLt(One, pct) THEN RDiv(pct, Rat(100, 1)) ELSE pct
         IN  IF aplica THEN RMul(tarifa_neta_base, pct_envio) ELSE Zero
    ELSE Zero

tarifa_con_impuestos(row) ==
    RMul(FillNaZero(row.Precio_Tarifa), RAdd(One, FillNaZero(row.tax_pct)))

tarifa_neta_base(row, incluir_impuestos) ==
    IF incluir_impuestos THEN tarifa_con_impuestos(row) ELSE FillNaZero(row.Precio_Tarifa)

retenciones_pct(columns, row) ==
    IF ColRetenciones \in columns THEN FillNaZero(row.retenciones_pct) ELSE Zero

\* The flag written over the notes of the row.
marcar_sin_solucion_sobrescribe(notas) == <<MensajeSinSolucion>>

\* The flag appended only to notes that already hold something.
marcar_sin_solucion_solo_con_notas(notas) ==
    IF notas = <<>> THEN notas
    ELSE notas \o <<Separador, MensajeSinSolucion>>

\* lambda x: mensaje if not x else f"{x}; {mensaje}"
marcar_sin_solucion(notas) ==
    IF notas = <<>> THEN <<MensajeSinSolucion>>
    ELSE notas \o <<Separador, MensajeSinSolucion>>

\* The fixed charge is never reset.
recargo_fijo_ml_noreset(fee_fixed, invalid_any, invalid) == fee_fixed

\* The fixed charge reset on every row as soon as one row is infeasible.
recargo_fijo_ml_todas(fee_fixed, invalid_any, invalid) ==
    IF invalid_any THEN Zero ELSE fee_fixed

\* The fixed charge column left at the 0.0 it is initialised with.
recargo_fijo_ml_sin_asignar(fee_fixed, invalid_any, invalid) == Zero

\* 'Recargo fijo ML ($)': fee_fixed, reset on the rows of invalid_mask.
recargo_fijo_ml(fee_fixed, invalid_any, invalid) ==
    IF invalid_any /\ invalid THEN Zero ELSE fee_fixed

\* 'IVA': the tax embedded in the price, on the rows with tax_pct > 0.
iva(precio_final, tax_pct, positive_any) ==
    IF positive_any /\ RLt(Zero, tax_pct)
    THEN RDiv(RMul(precio_final, tax_pct), RAdd(One, tax_pct))
    ELSE Zero

\* What calcular computes for one row before the frame-wide steps: the mask,
\* the tariff base, the shipping surcharge, the solver's target and result.
calculo_fila(columns, row, incluir_impuestos, tipo_recargo_envio, valor_recargo_envio) ==
    LET aplica == aplica_envio(columns, row)
        base == tarifa_neta_base(row, incluir_impuestos)
        envio == recargo_envio(tipo_recargo_envio, valor_recargo_envio, aplica, base)
        tarifa_objetivo == RAdd(base, envio)
    IN  [aplica_envio |-> aplica,
         tarifa_neta_base |-> base,
         recargo_envio |-> envio,
         tarifa_objetivo |-> tarifa_objetivo,
         calculo |->
            calcular_precio_publicacion_ml(Some(tarifa_objetivo), Some(row.fee_pct),
                Some(row.financing_pct), Some(retenciones_pct(columns, row)),
                Some(row.fee_fixed))]

\* The columns, with 'Cargo por vender ($)' taken from the percentage amount alone.
columnas_calculadas_cargo_sin_fijo(row, l, invalid_any, positive_any) ==
    LET c == l.calculo
        tax == FillNaZero(row.tax_pct)
    IN  [Precio_de_Tarifa |-> Round2(FillNaZero(row.Precio_Tarifa)),
         Tarifa_mas_impuestos |-> Round2(tarifa_con_impuestos(row)),
         Recargo_pct_ML |-> Round2(RMul(c.precio_publicacion, row.fee_pct)),
         Recargo_fijo_ML |->
            Round2(recargo_fijo_ml(row.fee_fixed, invalid_any, c.denominador_invalido)),
         Cargo_por_vender |-> Round2(RMul(c.precio_publicacion, row.fee_pct)),
         Recargo_financiacion |-> Round2(c.costo_por_ofrecer_cuotas),
         Recargo_envio |-> Round2(l.recargo_envio),
         Retenciones_ML |-> Round2(c.retenciones),
         Recibis |-> Round2(c.recibis),
         IVA |-> Round2(iva(c.precio_publicacion, tax, positive_any)),
         Precio_final |-> Round2(c.precio_publicacion),
         pct_ML_aplicado |-> Round2(RMul(row.fee_pct, Rat(100, 1))),
         pct_financiacion_aplicado |-> Round2(RMul(row.financing_pct, Rat(100, 1))),
         Notas_Flags |->
            IF invalid_any /\ c.denominador_invalido
            THEN marcar_sin_solucion(row.Notas_Flags)
            ELSE row.Notas_Flags]

\* The columns calcular writes on one row, rounded to 2 decimals.
columnas_calculadas(row, l, invalid_any, positive_any) ==
    LET c == l.calculo
        tax == FillNaZero(row.tax_pct)
    IN  [Precio_de_Tarifa |-> Round2(FillNaZero(row.Precio_Tarifa)),
         Tarifa_mas_impuestos |-> Round2(tarifa_con_impuestos(row)),
         Recargo_pct_ML |-> Round2(RMul(c.precio_publicacion, row.fee_pct)),
         Recargo_fijo_ML |->
            Round2(recargo_fijo_ml(row.fee_fixed, invalid_any, c.denominador_invalido)),
         Cargo_por_vender |-> Round2(c.cargo_por_vender),
         Recargo_financiacion |-> Round2(c.costo_por_ofrecer_cuotas),
         Recargo_envio |-> Round2(l.recargo_envio),
         Retenciones_ML |-> Round2(c.retenciones),
         Recibis |-> Round2(c.recibis),
         IVA |-> Round2(iva(c.precio_publicacion, tax, positive_any)),
         Precio_final |-> Round2(c.precio_publicacion),
         pct_ML_aplicado |-> Round2(RMul(row.fee_pct, Rat(100, 1))),
         pct_financiacion_aplicado |-> Round2(RMul(row.financing_pct, Rat(100, 1))),
         Notas_Flags |->
            IF invalid_any /\ c.denominador_invalido
            THEN marcar_sin_solucion(row.Notas_Flags)
            ELSE row.Notas_Flags]

\* A calcular that follows base_financiacion: the financing charge is taken
\* on the tariff base, plus the marketplace charge under 'tarifa_mas_ml'.
calcular_base_declarada(frame, base_financiacion, incluir_impuestos, tipo_recargo_envio, valor_recargo_envio) ==
    LET idx == 1..Len(frame.rows)
        calculos == [i \in idx |->
                        calculo_fila(frame.columns, frame.rows[i], incluir_impuestos,
                                     tipo_recargo_envio, valor_recargo_envio)]
        positive_any == \E i \in idx : RLt(Zero, FillNaZero(frame.rows[i].tax_pct))
        invalid_any == \E i \in idx : calculos[i].calculo.denominador_invalido
        base(i) == IF base_financiacion = "tarifa_mas_ml"
                   THEN RAdd(calculos[i].tarifa_neta_base, calculos[i].calculo.cargo_por_vender)
                   ELSE calculos[i].tarifa_neta_base
        financiacion(i) == Round2(RMul(base(i), frame.rows[i].financing_pct))
    IN  [frame |->
            [columns |-> frame.columns,
             rows |-> [i \in idx |->
                         [columnas_calculadas(frame.rows[i], calculos[i], invalid_any, positive_any)
                             EXCEPT !.Recargo_financiacion = financiacion(i)]
                         @@ frame.rows[i]]],
         locals |-> calculos]

calcular(frame, base_financiacion, incluir_impuestos, tipo_recargo_envio, valor_recargo_envio) ==
    LET idx == 1..Len(frame.rows)
        calculos == [i \in idx |->
                        calculo_fila(frame.columns, frame.rows[i], incluir_impuestos,
                                     tipo_recargo_envio, valor_recargo_envio)]
        positive_any == \E i \in idx : RLt(Zero, FillNaZero(frame.rows[i].tax_pct))
        df_con(filas) ==
            LET invalid_any == \E i \in idx : filas[i].calculo.denominador_invalido
            IN  [frame |->
                    [columns |-> frame.columns,
                     rows |-> [i \in idx |->
                                 columnas_calculadas(frame.rows[i], filas[i],
                                                     invalid_any, positive_any)
                                 @@ frame.rows[i]]],
                 locals |-> filas]
    IN  CHOOSE r \in {df_con(filas) : filas \in {calculos}} : TRUE

(***************************************************************************)
(* The run: a joined frame, the options, one call of calcular              *)
(***************************************************************************)
\* Bounds of the grids of the frames and options.
MaxRowTarifaSteps == 1
MaxEnvioFijoSteps == 1
MaxEnvioPctSteps == 3
\* calcular(..., tipo_recargo_envio='Fijo ($)', valor_recargo_envio=150)
EnvioFijoStep == 15000
\* calcular(..., tipo_recargo_envio='Porcentaje (%)', valor_recargo_envio=10)
EnvioPctEjemplo == 1000

ColOtroEnvio == "shipping_method"

MlPart(sku, fee_pct, fee_fixed, financing_pct, shipping) ==
    [SKU |-> sku, fee_pct |-> fee_pct, fee_fixed |-> fee_fixed,
     financing_pct |-> financing_pct, shipping |-> shipping]

OdooPart(codigo, precio_tarifa, tax, cantidad) ==
    [Codigo_Neored |-> codigo, Precio_Tarifa |-> precio_tarifa,
     tax_pct |-> tax, Cantidad_a_mano |-> cantidad]

SinMatch == OdooPart(None, None, None, None)

\* A row as unir_y_validar leaves it: both sides and the flags of the join.
JoinedRow(ml, odoo, retenciones) ==
    ml @@ odoo @@
    [retenciones_pct |-> retenciones,
     Notas_Flags |-> NotasDelJoin(odoo.Codigo_Neored, odoo.Precio_Tarifa, odoo.Cantidad_a_mano)]

\* The merged frame of crear_datos_ejemplo / preparar_df_para_calculo.
FixtureRows(con_envio) ==
    LET envio(t) == IF con_envio THEN t ELSE None
    IN  << JoinedRow(MlPart("LED7012795", Pct(145), Money(109500), Pct(40), envio(Some(ShipPorMiCuenta))),
                     OdooPart(Some("LED7012795"), Some(Money(1850000)), Some(Pct(210)), Some(Rat(250, 1))), None),
           JoinedRow(MlPart("CORNPR06WW", Pct(120), Money(80000), Pct(35), envio(Some(ShipClasico))),
                     OdooPart(Some("CORNPR06WW"), Some(Money(680000)), Some(Pct(210)), Some(Rat(120, 1))), None),
           JoinedRow(MlPart("TCL45310", Pct(150), Money(50000), Zero, envio(Some(ShipFlex))),
                     OdooPart(Some("TCL45310"), Some(Money(18405)), Some(Pct(210)), Some(Rat(60, 1))), None),
           JoinedRow(MlPart("MMM42385", Pct(135), Money(75000), Pct(50), envio(None)),
                     OdooPart(Some("MMM42385"), Some(Money(191572)), Some(Pct(210)), Some(Rat(576, 1))), None),
           JoinedRow(MlPart("NOEXISTE123", Pct(160), Money(120000), Pct(45), envio(Some(ShipRetiro))),
                     SinMatch, None) >>

FixtureFrames ==
    { [columns |-> {ColShippingEspacio}, rows |-> FixtureRows(TRUE)],
      [columns |-> {}, rows |-> FixtureRows(FALSE)] }

\* Frames of one row.
RowShipping ==
    {<<ColShippingEspacio, t>> :
        t \in OptionalOf({ShipPorMiCuenta, ShipGratis, ShipGratisPadded, ShipClasico,
                          ShipFlex, ShipEmpty})}
    \cup {<<ColShipping, Some(ShipPorMiCuenta)>>}
    \cup {<<ColOtroEnvio, Some(ShipPorMiCuenta)>>}
    \cup {<<"", None>>}

RowRetenciones == {<<FALSE, None>>, <<TRUE, Some(Pct(EjemploRetenciones))>>}

RowOdoo ==
    {SinMatch} \cup
    {OdooPart(Some("SKU"), Some(Money(k * 10000)), Some(t), Some(Rat(10, 1))) :
        k \in 0..MaxRowTarifaSteps, t \in {Zero, Pct(210)}}

RowFeePct == {Pct(EjemploComision), Pct(6 * EjemploComision), Pct(7 * EjemploComision)}
RowFinancing == {Zero, Pct(3 * EjemploFinanciacion)}
RowFeeFixed == {Zero, Money(FijoMLStep)}

OneRowFrames ==
    { [columns |-> (IF s[1] = "" THEN {} ELSE {s[1]})
                   \cup (IF r[1] THEN {ColRetenciones} ELSE {}),
       rows |-> << JoinedRow(MlPart("SKU", fp, ff, fin, s[2]), o, r[2]) >>] :
        s \in RowShipping, r \in RowRetenciones, o \in RowOdoo,
        fp \in RowFeePct, fin \in RowFinancing, ff \in RowFeeFixed }

\* A row whose percentage commission falls on half a cent: tariff 104.00,
\* commission 12%, fixed charge 10.95, no financing.
RoundingFrame ==
    [columns |-> {ColShippingEspacio},
     rows |-> << JoinedRow(MlPart("SKU", Pct(120), Money(1095), Zero, Some(ShipClasico)),
                           OdooPart(Some("SKU"), Some(Money(10400)), Some(Zero), Some(Rat(10, 1))),
                           None) >>]

Frames == FixtureFrames \cup OneRowFrames \cup {RoundingFrame}

Recargos ==
    {<<Some(TxtNinguno), Numero(Money(EnvioFijoStep))>>,
     <<None, Numero(Money(EnvioFijoStep))>>}
    \cup {<<Some(TxtFijo), v>> :
            v \in {SinValor, TextoNoNumerico}
                  \cup {Numero(Money(k * EnvioFijoStep)) : k \in 0..MaxEnvioFijoSteps}}
    \cup {<<Some(TxtPorcentaje), v>> :
            v \in {TextoNoNumerico, Numero(Hundredths(EnvioPctEjemplo))}
                  \cup {Numero(Hundredths(k * 50)) : k \in 0..MaxEnvioPctSteps}}

Options ==
    { [base_financiacion |-> b, incluir_impuestos |-> i,
       tipo_recargo_envio |-> r[1], valor_recargo_envio |-> r[2]] :
        b \in {"tarifa", "tarifa_mas_ml"}, i \in BOOLEAN, r \in Recargos }

Init ==
    /\ pc = "merged"
    /\ args = NoArgs
    /\ ret = SolverFailure
    /\ raw_ml = NoFrame /\ df_ml = NoFrame /\ df_odoo = NoFrame
    /\ opts \in Options
    /\ df \in Frames
    /\ df_calc = NoFrame
    /\ raw_odoo = NoFrame /\ lecturas = <<>> /\ df_resultado = NoFrame
    /\ locals = <<>>

Calcular ==
    /\ pc = "merged"
    /\ \E r \in {calcular(df, opts.base_financiacion, opts.incluir_impuestos,
                         opts.tipo_recargo_envio, opts.valor_recargo_envio)} :
           /\ df_calc' = r.frame
           /\ locals' = r.locals
    /\ pc' = "calculated"
    /\ UNCHANGED <<args, ret, raw_ml, df_ml, df_odoo, opts, df, raw_odoo, lecturas, df_resultado>>

Next == Calcular

Spec == Init /\ [][Next]_vars

(***************************************************************************)
(* data_processor.preparar_resultado_final                                 *)
(***************************************************************************)
\* Series.astype(int) on floats: the fractional part is dropped.
AsTypeInt(x) == IF x.n >= 0 THEN x.n \div x.d ELSE -((-x.n) \div x.d)

\* Series.round(): the nearest integer, a tie going to the even one.
RoundInt(x) ==
    LET q == x.n \div x.d
        rem == x.n % x.d
    IN  IF 2 * rem > x.d \/ (2 * rem = x.d /\ q % 2 = 1) THEN q + 1 ELSE q

\* The order of the columns of the result.
columnas_finales(incluir_impuestos, incluir_envio) ==
    <<"Numero de publicacion", "SKU", "Descripcion del producto", "Stock", "% Stock",
      "Precio de Tarifa">>
    \o (IF incluir_impuestos THEN <<"Tarifa + impuestos">> ELSE <<>>)
    \o <<"Precio final", "IVA", "Recargo % ML (importe)", "Recargo fijo ML ($)",
         "Cargo por vender ($)", "Recargo financiacion (importe)", "Retenciones ML ($)",
         "Recibis ($)">>
    \o (IF incluir_envio THEN <<"Recargo envio ($)">> ELSE <<>>)
    \o <<"% ML aplicado", "% financiacion aplicado", "Tipo de publicacion",
         "Precio actual en ML", "Moneda", "Notas/Flags">>

\* df_calc['Cantidad a mano'].fillna(0)
stock_disponible(row) == FillNaZero(row.Cantidad_a_mano)

\* (stock_disponible * float(porcentaje_stock) / 100.0).round().astype(int)
pct_stock(row, porcentaje_stock) ==
    RoundInt(RDiv(RMul(stock_disponible(row), porcentaje_stock), Rat(100, 1)))

SinColumnas == [c \in {} |-> Zero]

\* One row of the result. The columns copied from the listing sheet as they
\* are (publication number, description, listing type, current price,
\* currency) carry no computation and are left out.
fila_resultado(row, incluir_impuestos, incluir_envio, porcentaje_stock) ==
    [SKU |-> row.SKU,
     Stock |-> AsTypeInt(stock_disponible(row)),
     pct_Stock |-> pct_stock(row, porcentaje_stock),
     Precio_de_Tarifa |-> row.Precio_de_Tarifa,
     Precio_final |-> row.Precio_final,
     IVA |-> row.IVA,
     Recargo_pct_ML |-> row.Recargo_pct_ML,
     Recargo_fijo_ML |-> row.Recargo_fijo_ML,
     Cargo_por_vender |-> row.Cargo_por_vender,
     Recargo_financiacion |-> row.Recargo_financiacion,
     Retenciones_ML |-> row.Retenciones_ML,
     Recibis |-> row.Recibis,
     pct_ML_aplicado |-> row.pct_ML_aplicado,
     pct_financiacion_aplicado |-> row.pct_financiacion_aplicado,
     Notas_Flags |-> row.Notas_Flags]
    @@ (IF incluir_impuestos
        THEN [Tarifa_mas_impuestos |-> row.Tarifa_mas_impuestos] ELSE SinColumnas)
    @@ (IF incluir_envio THEN [Recargo_envio |-> row.Recargo_envio] ELSE SinColumnas)

preparar_resultado_final(frame, incluir_impuestos, incluir_envio, porcentaje_stock) ==
    [columns |-> columnas_finales(incluir_impuestos, incluir_envio),
     rows |-> [i \in 1..Len(frame.rows) |->
                 fila_resultado(frame.rows[i], incluir_impuestos, incluir_envio,
                                porcentaje_stock)]]

\* Bound of the grid of stock percentages, and its step:
\* preparar_resultado_final(..., porcentaje_stock=50).
MaxStockPctSteps == 2
StockPctStep == 50

StockPercentages == {Rat(k * StockPctStep, 1) : k \in 0..MaxStockPctSteps}

\* incluir_envio=(tipo_recargo_envio != 'Ninguno')
incluir_envio(tipo_recargo_envio) == tipo_recargo_envio # Some(TxtNinguno)

PrepararResultadoFinal ==
    /\ pc = "calculated"
    /\ \E porcentaje_stock \in StockPercentages :
           /\ args' = [porcentaje_stock |-> porcentaje_stock]
           /\ df_resultado' =
                preparar_resultado_final(df_calc, opts.incluir_impuestos,
                                         incluir_envio(opts.tipo_recargo_envio),
                                         porcentaje_stock)
    /\ pc' = "final"
    /\ UNCHANGED <<ret, raw_ml, df_ml, df_odoo, opts, df, df_calc, locals, raw_odoo, lecturas>>

(***************************************************************************)
(* Properties of calcular (checked under Spec)                             *)
(***************************************************************************)
Calculated == pc = "calculated"
RowIdx == 1..Len(df_calc.rows)

\* The row's percentages as calcular hands them to the solver.
RowTotalPct(i) ==
    RAdd(RAdd(df.rows[i].fee_pct, df.rows[i].financing_pct),
         retenciones_pct(df.columns, df.rows[i]))
RowInfeasible(i) == RLe(One, RowTotalPct(i))

\* The row's shipping text without case and diacritics.
RowShippingText(i) == _normalizar_estado_envio(FillNaEmpty(df.rows[i].shipping))
RowEligible(i) ==
    /\ ColShippingEspacio \in df.columns \/ ColShipping \in df.columns
    /\ RowShippingText(i) \in {TxtEnviosGratis, TxtEnviosPorMiCuenta}

ModeFijo == opts.tipo_recargo_envio = Some(TxtFijo)
ModePorcentaje == opts.tipo_recargo_envio = Some(TxtPorcentaje)
ModeNinguno == opts.tipo_recargo_envio \in {None, Some(TxtNinguno)}
Magnitude == opts.valor_recargo_envio

EmittedDeductions(r) ==
    RAdd(RAdd(RAdd(r.Recibis, r.Cargo_por_vender), r.Recargo_financiacion), r.Retenciones_ML)

\* C4 as claimed: for every row the solver solved, the emitted (rounded)
\* values satisfy Precio final = Recibis + Cargo por vender + Recargo
\* financiacion + Retenciones ML exactly.
C4_Original_RoundedSumExact ==
    Calculated =>
        \A i \in RowIdx :
            ~locals[i].calculo.denominador_invalido =>
                df_calc.rows[i].Precio_final = EmittedDeductions(df_calc.rows[i])

\* C4 as amended: for every row the solver solved, the sum holds exactly
\* for the values before rounding, and the emitted values, each rounded to 2
\* decimals on its own, satisfy it to within 0.02.
C4_SumBeforeRounding ==
    Calculated =>
        \A i \in RowIdx :
            ~locals[i].calculo.denominador_invalido =>
                LET c == locals[i].calculo
                    r == df_calc.rows[i]
                    gap == RSub(r.Precio_final, EmittedDeductions(r))
                IN  /\ c.precio_publicacion =
                         RAdd(RAdd(RAdd(c.recibis, c.cargo_por_vender),
                                   c.costo_por_ofrecer_cuotas), c.retenciones)
                    /\ r.Precio_final = Round2(c.precio_publicacion)
                    /\ r.Recibis = Round2(c.recibis)
                    /\ r.Cargo_por_vender = Round2(c.cargo_por_vender)
                    /\ r.Recargo_financiacion = Round2(c.costo_por_ofrecer_cuotas)
                    /\ r.Retenciones_ML = Round2(c.retenciones)
                    /\ RLe(gap, Money(2)) /\ RLe(Money(-2), gap)

C4_Witness ==
    /\ Calculated
    /\ \E i \in RowIdx :
        /\ ~locals[i].calculo.denominador_invalido
        /\ df_calc.rows[i].fee_fixed # Zero
        /\ df_calc.rows[i].Retenciones_ML # Zero
        /\ df_calc.rows[i].Precio_final # EmittedDeductions(df_calc.rows[i])

\* C5: a row whose fee_pct + financing_pct + retenciones_pct >= 1 comes out
\* with Precio final, Cargo por vender, Recargo financiacion, Retenciones ML
\* and Recibis equal to 0.0, Recargo fijo ML reset to 0.0 and the
\* infeasibility flag appended to its notes; a row with a positive denominator
\* gets no flag and keeps Recargo fijo ML = fee_fixed.
C5_InfeasibleRow ==
    Calculated =>
        \A i \in RowIdx :
            LET r == df_calc.rows[i]
                notas == df.rows[i].Notas_Flags
            IN  /\ RowInfeasible(i) =>
                    /\ r.Precio_final = Zero /\ r.Cargo_por_vender = Zero
                    /\ r.Recargo_financiacion = Zero /\ r.Retenciones_ML = Zero
                    /\ r.Recibis = Zero
                    /\ r.Recargo_fijo_ML = Zero
                    /\ r.Notas_Flags =
                         IF notas = <<>> THEN <<MensajeSinSolucion>>
                         ELSE notas \o <<Separador, MensajeSinSolucion>>
                /\ ~RowInfeasible(i) =>
                    /\ r.Notas_Flags = notas
                    /\ \A k \in 1..Len(r.Notas_Flags) : r.Notas_Flags[k] # MensajeSinSolucion
                    /\ r.Recargo_fijo_ML = df.rows[i].fee_fixed

C5_Witness ==
    /\ Calculated
    /\ \E i \in RowIdx :
        /\ RowInfeasible(i)
        /\ df.rows[i].fee_fixed # Zero
        /\ df.rows[i].Notas_Flags # <<>>
        /\ df_calc.rows[i].Recargo_fijo_ML = Zero
        /\ df_calc.rows[i].Notas_Flags[Len(df_calc.rows[i].Notas_Flags)] = MensajeSinSolucion

\* C6 as claimed: every monetary output of an infeasible row is 0.0, the
\* shipping surcharge, the percentage-commission amount and the tax amount
\* included, for every surcharge mode, magnitude and tax option.
C6_AllMonetaryOutputsZeroed ==
    Calculated =>
        \A i \in RowIdx :
            locals[i].calculo.denominador_invalido =>
                LET r == df_calc.rows[i]
                IN  /\ r.Precio_final = Zero /\ r.Cargo_por_vender = Zero
                    /\ r.Recargo_financiacion = Zero /\ r.Retenciones_ML = Zero
                    /\ r.Recibis = Zero /\ r.Recargo_fijo_ML = Zero
                    /\ r.Recargo_pct_ML = Zero /\ r.IVA = Zero
                    /\ r.Recargo_envio = Zero

C8_FixedSurcharge ==
    (Calculated /\ ModeFijo) =>
        \A i \in RowIdx :
            RowEligible(i) =>
                LET literal == IF Magnitude.kind = "num" THEN Magnitude.v ELSE Zero
                IN  /\ locals[i].recargo_envio = literal
                    /\ df_calc.rows[i].Recargo_envio = Round2(literal)
                    /\ locals[i].tarifa_objetivo = RAdd(locals[i].tarifa_neta_base, literal)

C8_Witness ==
    /\ Calculated
    /\ ModeFijo /\ Magnitude = Numero(Money(EnvioFijoStep))
    /\ \E i \in RowIdx :
        /\ df.rows[i].shipping = Some(ShipPorMiCuenta)
        /\ RowEligible(i)
        /\ df_calc.rows[i].Recargo_envio = Money(EnvioFijoStep)

\* C9 as claimed (what the tests assert on the example frame): with a fixed
\* surcharge of 150 or a percentage surcharge of 10 the rows with a surcharge
\* > 0 are exactly those whose text, without case and diacritics, contains
\* 'mercado envios por mi cuenta'; the '(Flex)' row gets 10% of 184.05 = 18.41.
C9_SelfFundedVariantsSurcharged ==
    (/\ Calculated
     /\ df = [columns |-> {ColShippingEspacio}, rows |-> FixtureRows(TRUE)]
     /\ ~opts.incluir_impuestos
     /\ \/ ModeFijo /\ Magnitude = Numero(Money(EnvioFijoStep))
        \/ ModePorcentaje /\ Magnitude = Numero(Hundredths(EnvioPctEjemplo)))
    => \A i \in RowIdx :
        /\ RLt(Zero, df_calc.rows[i].Recargo_envio)
             <=> Contains(RowShippingText(i), TxtEnviosPorMiCuenta)
        /\ (ModePorcentaje /\ df.rows[i].SKU = "TCL45310")
             => df_calc.rows[i].Recargo_envio = Money(1841)

FormPercentages ==
    {Hundredths(k * 50) : k \in 0..MaxEnvioPctSteps} \cup {Hundredths(EnvioPctEjemplo)}

\* C11 as claimed: for every percentage X of the form's range 0..100 the
\* surcharge of an eligible row is X/100 of the tariff base, and so it never
\* decreases when X grows.
C11_FormPercentageOfBase ==
    (/\ Calculated /\ ModePorcentaje /\ Magnitude.kind = "num"
     /\ RLe(Zero, Magnitude.v) /\ RLe(Magnitude.v, Rat(100, 1)))
    => \A i \in RowIdx :
        RowEligible(i) =>
            LET base == locals[i].tarifa_neta_base
            IN  /\ locals[i].recargo_envio = RMul(RDiv(Magnitude.v, Rat(100, 1)), base)
                /\ \A x \in FormPercentages :
                    RLe(x, Magnitude.v) =>
                        RLe(recargo_envio(opts.tipo_recargo_envio, Numero(x), TRUE, base),
                            locals[i].recargo_envio)

(***************************************************************************)
(* utils: the normalizers of money, percentage, fee and tax texts          *)
(***************************************************************************)
DigitChars == <<"0", "1", "2", "3", "4", "5", "6", "7", "8", "9">>
\* \d and [\d\.,]
DigitClass == {DigitChars[i] : i \in 1..Len(DigitChars)}
NumCharClass == DigitClass \cup {".", ","}
IsDigit(c) == c \in DigitClass
IsNumChar(c) == c \in NumCharClass
IsWhitespace(c) == c \in Whitespace

RECURSIVE DigitsToNat(_)
DigitsToNat(t) ==
    IF t = <<>> THEN 0
    ELSE 10 * DigitsToNat(SubSeq(t, 1, Len(t) - 1)) + (IndexIn(DigitChars, t[Len(t)]) - 1)

RECURSIVE Pow10(_)
Pow10(k) == IF k = 0 THEN 1 ELSE 10 * Pow10(k - 1)

\* What a call returned, or that it raised.
Return(v) == [raised |-> FALSE, value |-> v]
Raise == [raised |-> TRUE, value |-> Zero]

\* float(text): an optional sign, digits with at most one point and at least
\* one digit; None stands for ValueError.  (The texts of this model carry no
\* exponent, no '_' and none of 'inf' / 'nan'.)
PyFloat(t) ==
    LET signed == t # <<>> /\ Head(t) \in {"-", "+"}
        body == IF signed THEN Tail(t) ELSE t
        dots == {i \in 1..Len(body) : body[i] = "."}
        wellformed ==
            /\ \A i \in 1..Len(body) : IsDigit(body[i]) \/ body[i] = "."
            /\ Cardinality(dots) <= 1
            /\ \E i \in 1..Len(body) : IsDigit(body[i])
        decimals == IF dots = {} THEN 0 ELSE Len(body) - (CHOOSE i \in dots : TRUE)
        magnitude == Rat(DigitsToNat(SelectSeq(body, IsDigit)), Pow10(decimals))
    IN  IF ~wellformed THEN None
        ELSE Some(IF Head(t) = "-" THEN RNeg(magnitude) ELSE magnitude)

\* re.sub(r'[...]', '', text) and str.replace(old, new) on one-character strings.
RemoveChars(t, S) == LET keep(c) == c \notin S IN SelectSeq(t, keep)
ReplaceChar(t, old, new) == [i \in 1..Len(t) |-> IF t[i] = old THEN new ELSE t[i]]
\* str.rfind(c), counted from 1; 0 when c does not occur.
RFind(t, c) == IF Occurs(t, c) THEN CHOOSE i \in 1..Len(t) : t[i] = c /\ \A j \in (i + 1)..Len(t) : t[j] # c ELSE 0
\* text.split(','): the number of parts and the length of the last one.
SplitCount(t, c) == Cardinality({i \in 1..Len(t) : t[i] = c}) + 1
LastPartLen(t, c) == Len(t) - RFind(t, c)

\* parse_money without the except clause.
parse_money_sin_except(text) ==
    IF IsNa(text) THEN Return(Zero)
    ELSE IF Strip(Val(text)) = <<>> THEN Return(Zero)
    ELSE LET t1 == RemoveChars(Strip(Val(text)), {"$"} \cup Whitespace)
             t2 == IF Occurs(t1, ",") /\ Occurs(t1, ".")
                   THEN IF RFind(t1, ".") > RFind(t1, ",")
                        THEN RemoveChars(t1, {","})
                        ELSE ReplaceChar(RemoveChars(t1, {"."}), ",", ".")
                   ELSE IF Occurs(t1, ",")
                   THEN IF SplitCount(t1, ",") = 2 /\ LastPartLen(t1, ",") <= 2
                        THEN ReplaceChar(t1, ",", ".")
                        ELSE RemoveChars(t1, {","})
                   ELSE t1
             f == PyFloat(t2)
         IN  IF IsNa(f) THEN Raise ELSE Return(Val(f))

parse_money(text) ==
    IF IsNa(text) THEN Return(Zero)
    ELSE IF Strip(Val(text)) = <<>> THEN Return(Zero)
    ELSE LET t1 == RemoveChars(Strip(Val(text)), {"$"} \cup Whitespace)
             t2 == IF Occurs(t1, ",") /\ Occurs(t1, ".")
                   THEN IF RFind(t1, ".") > RFind(t1, ",")
                        THEN RemoveChars(t1, {","})
                        ELSE ReplaceChar(RemoveChars(t1, {"."}), ",", ".")
                   ELSE IF Occurs(t1, ",")
                   THEN IF SplitCount(t1, ",") = 2 /\ LastPartLen(t1, ",") <= 2
                        THEN ReplaceChar(t1, ",", ".")
                        ELSE RemoveChars(t1, {","})
                   ELSE t1
             f == PyFloat(t2)
         IN  IF IsNa(f) THEN Return(Zero) ELSE Return(Val(f))

\* parse_pct that reads every magnitude as a whole percentage.
parse_pct_siempre100(text) ==
    IF IsNa(text) THEN Return(Zero)
    ELSE IF Strip(Val(text)) = <<>> THEN Return(Zero)
    ELSE LET f == PyFloat(ReplaceChar(RemoveChars(Strip(Val(text)), {"%"} \cup Whitespace), ",", "."))
         IN  IF IsNa(f) THEN Return(Zero) ELSE Return(RDiv(Val(f), Rat(100, 1)))

parse_pct(text) ==
    IF IsNa(text) THEN Return(Zero)
    ELSE IF Strip(Val(text)) = <<>> THEN Return(Zero)
    ELSE LET t1 == RemoveChars(Strip(Val(text)), {"%"} \cup Whitespace)
             t2 == ReplaceChar(t1, ",", ".")
             f == PyFloat(t2)
         IN  IF IsNa(f) THEN Return(Zero)
             ELSE IF RLt(One, Val(f)) THEN Return(RDiv(Val(f), Rat(100, 1)))
             ELSE Return(Val(f))

\* The end of the longest run of characters of one class that starts at i.
RunEnd(t, i, class) ==
    CHOOSE j \in i..Len(t) :
        /\ \A k \in i..j : t[k] \in class
        /\ j = Len(t) \/ t[j + 1] \notin class
\* The first position at or after i that holds no whitespace (Len(t) + 1 if none).
SkipWhitespace(t, i) ==
    CHOOSE k \in i..(Len(t) + 1) :
        /\ \A j \in i..(k - 1) : IsWhitespace(t[j])
        /\ k = Len(t) + 1 \/ ~IsWhitespace(t[k])
PercentFollows(t, j) ==
    LET k == SkipWhitespace(t, j + 1) IN k <= Len(t) /\ t[k] = "%"
FirstOf(S) == CHOOSE i \in S : \A j \in S : i <= j

\* re.search(r'([\d\.,]+)\s*%', text).group(1), None without a match.
pct_match(t) ==
    LET starts == {i \in 1..Len(t) : IsNumChar(t[i]) /\ PercentFollows(t, RunEnd(t, i, NumCharClass))}
    IN  IF starts = {} THEN None
        ELSE Some(SubSeq(t, FirstOf(starts), RunEnd(t, FirstOf(starts), NumCharClass)))

\* re.match in the place of re.search: the token must open the text.
pct_match_anchored(t) ==
    IF t # <<>> /\ IsNumChar(t[1]) /\ PercentFollows(t, RunEnd(t, 1, NumCharClass))
    THEN Some(SubSeq(t, 1, RunEnd(t, 1, NumCharClass)))
    ELSE None

\* re.search(r'\$\s*([\d\.,]+)', text).group(1), None without a match.
fixed_match(t) ==
    LET number(i) == SkipWhitespace(t, i + 1)
        starts == {i \in 1..Len(t) : t[i] = "$" /\ number(i) <= Len(t) /\ IsNumChar(t[number(i)])}
    IN  IF starts = {} THEN None
        ELSE Some(SubSeq(t, number(FirstOf(starts)), RunEnd(t, number(FirstOf(starts)), NumCharClass)))

\* The two values of parse_fee_combo from the two tokens it found.
fee_combo_values(pct_token, fixed_token) ==
    LET pct_value == IF IsNa(pct_token) THEN Return(Zero)
                     ELSE parse_pct(Some(Val(pct_token) \o <<"%">>))
        fixed_value == IF IsNa(fixed_token) THEN Return(Zero)
                       ELSE parse_money(Some(<<"$">> \o Val(fixed_token)))
    IN  IF pct_value.raised \/ fixed_value.raised THEN Raise
        ELSE Return(<<pct_value.value, fixed_value.value>>)

parse_fee_combo_anchored(text) ==
    IF IsNa(text) THEN Return(<<Zero, Zero>>)
    ELSE IF Strip(Val(text)) = <<>> THEN Return(<<Zero, Zero>>)
    ELSE fee_combo_values(pct_match_anchored(Strip(Val(text))), fixed_match(Strip(Val(text))))

parse_fee_combo(text) ==
    IF IsNa(text) THEN Return(<<Zero, Zero>>)
    ELSE IF Strip(Val(text)) = <<>> THEN Return(<<Zero, Zero>>)
    ELSE fee_combo_values(pct_match(Strip(Val(text))), fixed_match(Strip(Val(text))))

\* re.search(r'(\d+(?:\.\d+)?)\s*%', tax_text).group(1), None without a match.
tax_match(t) ==
    LET int_end(i) == RunEnd(t, i, DigitClass)
        has_fraction(i) ==
            /\ int_end(i) + 2 <= Len(t)
            /\ t[int_end(i) + 1] = "."
            /\ IsDigit(t[int_end(i) + 2])
        group_end(i) ==
            IF has_fraction(i) /\ PercentFollows(t, RunEnd(t, int_end(i) + 2, DigitClass))
            THEN RunEnd(t, int_end(i) + 2, DigitClass)
            ELSE int_end(i)
        starts == {i \in 1..Len(t) : IsDigit(t[i]) /\ PercentFollows(t, group_end(i))}
    IN  IF starts = {} THEN None
        ELSE Some(SubSeq(t, FirstOf(starts), group_end(FirstOf(starts))))

extract_tax_percentage(tax_text) ==
    IF IsNa(tax_text) THEN Return(Zero)
    ELSE LET match == tax_match(Strip(Val(tax_text)))
         IN  IF IsNa(match) THEN Return(Zero)
             ELSE IF IsNa(PyFloat(Val(match))) THEN Raise
             ELSE Return(RDiv(Val(PyFloat(Val(match))), Rat(100, 1)))

(***************************************************************************)
(* The normalizers applied to texts                                        *)
(***************************************************************************)
TxtPct1450 ==
    <<"1", "4", ".", "5", "0", "%">>
TxtPct004 ==
    <<"0", ".", "0", "4">>
TxtPct4 ==
    <<"4">>
TxtFeeCombo ==
    <<"1", "4", ".", "5", "0", "%", " ", "+", " ", "$", "1", "0", "9", "5", ".", "0", "0">>
TxtFeeComboSwapped ==
    <<"$", "1", "0", "9", "5", ".", "0", "0", " ", "+", " ", "1", "4", ".", "5", "0", "%">>
TxtMoneyUS ==
    <<"$", "1", ",", "0", "9", "5", ".", "0", "0">>
TxtMoneyEU ==
    <<"1", ".", "0", "9", "5", ",", "5", "0">>
TxtMoneyPlain ==
    <<"1", "0", "9", "5">>
TxtThreeDots ==
    <<"1", ".", "2", ".", "3">>
TxtThreeCommasPct ==
    <<"1", ",", "2", ",", "3", "%">>
TxtNegative ==
    <<"-", "5">>
TxtIva21 ==
    <<"I", "V", "A", " ", "V", "e", "n", "t", "a", "s", " ", "2", "1", "%">>
TxtIva105 ==
    <<"I", "V", "A", " ", "1", "0", ".", "5", " ", "%">>
TxtComboSeparator ==
    <<" ", "+", " ">>

\* Bounds: the length of the generated texts and of the numbers of tokens.
MaxTextLen == 3
MaxNumberLen == 2

ParseAlphabet == {"1", "5", ".", ",", "%", "$", " ", "-", "x"}
NumberAlphabet == {"1", "5", ".", ","}

TextsUpTo(alphabet, n) == UNION {[1..k -> alphabet] : k \in 0..n}

ExampleTexts ==
    {TxtPct1450, TxtPct004, TxtPct4, TxtFeeCombo, TxtFeeComboSwapped, TxtMoneyUS,
     TxtMoneyEU, TxtMoneyPlain, TxtThreeDots, TxtThreeCommasPct, TxtNegative,
     TxtIva21, TxtIva105}

\* '<number>%' and '$<number>' tokens.
Numbers == (TextsUpTo(NumberAlphabet, MaxNumberLen) \ {<<>>}) \cup {<<"1", "4", ".", "5", "0">>, <<"1", "0", "9", "5", ".", "0", "0">>}
PctToken(number) == number \o <<"%">>
FixedToken(number) == <<"$">> \o number

\* The argument of one call: a text or a missing value; for a text made of
\* two tokens, the tokens it was made of.
ParseArgs ==
    {[text |-> t, pct_token |-> None, fixed_token |-> None] :
        t \in OptionalOf(TextsUpTo(ParseAlphabet, MaxTextLen) \cup ExampleTexts)}
    \cup
    {[text |-> Some(IF pct_first
                    THEN PctToken(p) \o TxtComboSeparator \o FixedToken(f)
                    ELSE FixedToken(f) \o TxtComboSeparator \o PctToken(p)),
      pct_token |-> Some(PctToken(p)), fixed_token |-> Some(FixedToken(f))] :
        p \in Numbers, f \in Numbers, pct_first \in BOOLEAN}

NoCall == [fn |-> "", out |-> Return(Zero)]

InitParse ==
    /\ pc = "text"
    /\ args \in ParseArgs
    /\ ret = NoCall
    /\ raw_ml = NoFrame /\ df_ml = NoFrame /\ df_odoo = NoFrame
    /\ opts = NoOpts
    /\ df = NoFrame
    /\ df_calc = NoFrame
    /\ raw_odoo = NoFrame /\ lecturas = <<>> /\ df_resultado = NoFrame
    /\ locals = <<>>

ParseMoney ==
    /\ pc = "text"
    /\ ret' = [fn |-> "parse_money", out |-> parse_money(args.text)]
    /\ pc' = "parsed"
    /\ UNCHANGED <<args, raw_ml, df_ml, df_odoo, opts, df, df_calc, locals, raw_odoo, lecturas, df_resultado>>

ParsePct ==
    /\ pc = "text"
    /\ ret' = [fn |-> "parse_pct", out |-> parse_pct(args.text)]
    /\ pc' = "parsed"
    /\ UNCHANGED <<args, raw_ml, df_ml, df_odoo, opts, df, df_calc, locals, raw_odoo, lecturas, df_resultado>>

ParseFeeCombo ==
    /\ pc = "text"
    /\ ret' = [fn |-> "parse_fee_combo", out |-> parse_fee_combo(args.text)]
    /\ pc' = "parsed"
    /\ UNCHANGED <<args, raw_ml, df_ml, df_odoo, opts, df, df_calc, locals, raw_odoo, lecturas, df_resultado>>

ExtractTaxPercentage ==
    /\ pc = "text"
    /\ ret' = [fn |-> "extract_tax_percentage", out |-> extract_tax_percentage(args.text)]
    /\ pc' = "parsed"
    /\ UNCHANGED <<args, raw_ml, df_ml, df_odoo, opts, df, df_calc, locals, raw_odoo, lecturas, df_resultado>>

NextParse == ParseMoney \/ ParsePct \/ ParseFeeCombo \/ ExtractTaxPercentage

SpecParse == InitParse /\ [][NextParse]_vars

(***************************************************************************)
(* Properties of the normalizers (checked under SpecParse)                 *)
(***************************************************************************)
Parsed == pc = "parsed"
ParsedBy(fn) == Parsed /\ ret.fn = fn
\* The numbers a call returned: two for parse_fee_combo, one for the others.
OutValues ==
    IF ret.fn = "parse_fee_combo" THEN {ret.out.value[1], ret.out.value[2]}
    ELSE {ret.out.value}
NoDigit(text) == IsNa(text) \/ \A i \in 1..Len(Val(text)) : ~IsDigit(Val(text)[i])

\* C16 as claimed: for every input text, parse_money, parse_pct, both
\* components of parse_fee_combo and extract_tax_percentage return a value
\* >= 0.
C16_NormalizedNonNegative ==
    (Parsed /\ ~ret.out.raised) => \A v \in OutValues : RLe(Zero, v)

\* C17: no normalizer raises for a text or a missing value, a text without
\* any digit (empty, blank, missing, malformed) gives 0.0, and so do
\* parse_money('1.2.3') and parse_pct('1,2,3%').
C17_NormalizersTotal ==
    Parsed =>
        /\ ~ret.out.raised
        /\ NoDigit(args.text) => \A v \in OutValues : v = Zero
        /\ (ret.fn = "parse_money" /\ args.text = Some(TxtThreeDots)) => ret.out.value = Zero
        /\ (ret.fn = "parse_pct" /\ args.text = Some(TxtThreeCommasPct)) => ret.out.value = Zero

C17_Witness ==
    /\ ParsedBy("parse_money")
    /\ args.text = Some(TxtThreeDots)
    /\ ~ret.out.raised
    /\ ret.out.value = Zero

\* C18: parse_pct drops '%' and whitespace, reads a decimal comma as a
\* point, and returns the magnitude divided by 100 when it is > 1 and the
\* magnitude itself otherwise: '14.50%' gives 0.145, '0.04' gives 0.04, '4'
\* gives 0.04, and a text gives the same value with a '%' appended.
C18_PercentageRule ==
    (ParsedBy("parse_pct") /\ ~IsNa(args.text)) =>
        LET text == Val(args.text)
            magnitude == PyFloat(ReplaceChar(RemoveChars(text, {"%"} \cup Whitespace), ",", "."))
        IN  /\ ~ret.out.raised
            /\ ~IsNa(magnitude) =>
                 ret.out.value = IF RLt(One, Val(magnitude))
                                 THEN RDiv(Val(magnitude), Rat(100, 1))
                                 ELSE Val(magnitude)
            /\ text = TxtPct1450 => ret.out.value = Pct(145)
            /\ text = TxtPct004 => ret.out.value = Pct(40)
            /\ text = TxtPct4 => ret.out.value = Pct(40)
            /\ parse_pct(Some(text \o <<"%">>)) = ret.out

C18_Witness ==
    /\ ParsedBy("parse_pct")
    /\ args.text = Some(TxtPct4)
    /\ ret.out.value = Pct(40)

\* C19: for a percentage token p and a fixed token f, parse_fee_combo gives
\* (parse_pct(p), parse_money(f)) for p + ' + ' + f and for f + ' + ' + p; a
\* text without '%' gives 0.0 as percentage and a text without '$' gives 0.0
\* as fixed charge; '14.50% + $1095.00' gives (0.145, 1095.0).
C19_FeeComboOrderIndependent ==
    (ParsedBy("parse_fee_combo") /\ ~ret.out.raised) =>
        /\ ~IsNa(args.pct_token) =>
             LET p == Val(args.pct_token)
                 f == Val(args.fixed_token)
             IN  /\ ret.out.value = <<parse_pct(Some(p)).value, parse_money(Some(f)).value>>
                 /\ parse_fee_combo(Some(p \o TxtComboSeparator \o f)) = ret.out
                 /\ parse_fee_combo(Some(f \o TxtComboSeparator \o p)) = ret.out
        /\ (~IsNa(args.text) /\ ~Occurs(Val(args.text), "%")) => ret.out.value[1] = Zero
        /\ (~IsNa(args.text) /\ ~Occurs(Val(args.text), "$")) => ret.out.value[2] = Zero
        /\ args.text = Some(TxtFeeCombo) => ret.out.value = <<Pct(145), Money(109500)>>

C19_Witness ==
    /\ ParsedBy("parse_fee_combo")
    /\ args.text = Some(TxtFeeComboSwapped)
    /\ args.pct_token = Some(TxtPct1450)
    /\ ret.out.value = <<Pct(145), Money(109500)>>

(***************************************************************************)
(* utils.validate_excel_structure, utils.clean_ml_data,                    *)
(* data_processor.leer_ml, data_processor.unir_y_validar                   *)
(***************************************************************************)
RequiredMl ==
    {"ITEM_ID", "SKU", "TITLE", "QUANTITY", "PRICE", "CURRENCY_ID",
     "FEE_PER_SALE_MARKETPLACE_V2", "COST_OF_FINANCING_MARKETPLACE",
     "LISTING_TYPE_V3", ColShippingEspacio}
RequiredOdoo ==
    {"Codigo Neored", "Nombre", "Cantidad a mano", "Precio Tarifa", "Impuestos del cliente"}

\* (es_valido, the columns the message names), and the columns of df after
\* the rename in place of the shipping column.
validate_excel_structure(columns, file_type) ==
    LET renamed == IF file_type = "ml" /\ shipping_column(columns) = Some(ColShipping)
                   THEN (columns \ {ColShipping}) \cup {ColShippingEspacio}
                   ELSE columns
        required == IF file_type = "ml" THEN RequiredMl ELSE RequiredOdoo
    IN  IF file_type \notin {"ml", "odoo"}
        THEN [es_valido |-> FALSE, missing_cols |-> {}, columns |-> columns]
        ELSE [es_valido |-> required \ renamed = {},
              missing_cols |-> required \ renamed,
              columns |-> renamed]

ItemML1 ==
    <<"M", "L", "1">>
ItemSinPrefijo ==
    <<"X", "1">>
SkuA1 ==
    <<"A", "1">>
SkuB2 ==
    <<"B", "2">>
SkuBlanco ==
    <<" ">>
TxtFeeInfeasible ==
    <<"1", "0", "1", ".", "5", "0", "%">>
TxtPrefijoML ==
    <<"M", "L">>

\* The rows clean_ml_data keeps: ITEM_ID starts with 'ML', SKU is not blank.
valid_mask(row) ==
    /\ ~IsNa(row.ITEM_ID)
    /\ StartsWith(Val(row.ITEM_ID), TxtPrefijoML)
    /\ ~IsNa(row.SKU)
    /\ Strip(Val(row.SKU)) # <<>>
clean_ml_data(rows) == SelectSeq(rows, valid_mask)

\* One row of leer_ml's frame: the parsed fields next to the raw ones.
parsear_fila(row) ==
    LET fee == parse_fee_combo(row.FEE_PER_SALE_MARKETPLACE_V2)
        financing == parse_pct(row.COST_OF_FINANCING_MARKETPLACE)
        price == parse_money(row.PRICE)
    IN  IF fee.raised \/ financing.raised \/ price.raised THEN Raise
        ELSE Return(MlPart(Val(row.SKU), fee.value[1], fee.value[2], financing.value, row.shipping)
                    @@ [ITEM_ID |-> row.ITEM_ID, PRICE |-> price.value,
                        FEE_PER_SALE_MARKETPLACE_V2 |-> row.FEE_PER_SALE_MARKETPLACE_V2,
                        COST_OF_FINANCING_MARKETPLACE |-> row.COST_OF_FINANCING_MARKETPLACE])

\* What a reader did besides returning or raising: the calls it made, in
\* their order, and the columns its error message names.
Lectura(out, pasos, missing_cols) ==
    out @@ [pasos |-> pasos, missing_cols |-> missing_cols]

PasoValidar == "validate_excel_structure"
PasoConvertir == "_convert_ml_workbook_to_values"
PasoLimpiar == "clean"
PasoParsear == "parse"

\* leer_ml on a sheet already read: the workbook converted to values has
\* the columns of the sheet, so a sheet that fails the first validation is
\* converted, fails the second one too, and leer_ml raises.
leer_ml(raw) ==
    LET validation == validate_excel_structure(raw.columns, "ml")
        parsed == [i \in 1..Len(clean_ml_data(raw.rows)) |-> parsear_fila(clean_ml_data(raw.rows)[i])]
    IN  IF ~validation.es_valido
        THEN Lectura(Raise, <<PasoValidar, PasoConvertir, PasoValidar>>, validation.missing_cols)
        ELSE IF \E i \in 1..Len(parsed) : parsed[i].raised
        THEN Lectura(Raise, <<PasoValidar, PasoLimpiar, PasoParsear>>, {})
        ELSE Lectura(Return([columns |-> validation.columns \cup {"fee_pct", "fee_fixed", "financing_pct"},
                             rows |-> [i \in 1..Len(parsed) |-> parsed[i].value]]),
                     <<PasoValidar, PasoLimpiar, PasoParsear>>, {})

\* pd.to_numeric(column, errors='coerce').fillna(0) on one cell
to_numeric_fillna(cell) == IF cell.kind = "num" THEN cell.v ELSE Zero

\* df[df['Codigo Neored'].notna()]
codigo_notna(row) == ~IsNa(row.Codigo_Neored)

\* One row of leer_odoo's frame.
convertir_fila_odoo(row) ==
    LET tax == extract_tax_percentage(row.Impuestos_del_cliente)
    IN  IF tax.raised THEN Raise
        ELSE Return(OdooPart(row.Codigo_Neored, Some(to_numeric_fillna(row.Precio_Tarifa)),
                             Some(tax.value), Some(to_numeric_fillna(row.Cantidad_a_mano)))
                    @@ [Impuestos_del_cliente |-> row.Impuestos_del_cliente])

\* A leer_odoo that filters and converts the rows whatever the validation says.
leer_odoo_sin_validar(raw) ==
    LET validation == validate_excel_structure(raw.columns, "odoo")
        kept == SelectSeq(raw.rows, codigo_notna)
        converted == [i \in 1..Len(kept) |-> convertir_fila_odoo(kept[i])]
    IN  Lectura(Return([columns |-> raw.columns \cup {"tax_pct"},
                        rows |-> [i \in 1..Len(converted) |-> converted[i].value]]),
                <<PasoLimpiar, PasoParsear, PasoValidar>>, validation.missing_cols)

\* leer_odoo on a sheet already read.
leer_odoo(raw) ==
    LET validation == validate_excel_structure(raw.columns, "odoo")
        kept == SelectSeq(raw.rows, codigo_notna)
        converted == [i \in 1..Len(kept) |-> convertir_fila_odoo(kept[i])]
    IN  IF ~validation.es_valido
        THEN Lectura(Raise, <<PasoValidar>>, validation.missing_cols)
        ELSE IF \E i \in 1..Len(converted) : converted[i].raised
        THEN Lectura(Raise, <<PasoValidar, PasoLimpiar, PasoParsear>>, {})
        ELSE Lectura(Return([columns |-> raw.columns \cup {"tax_pct"},
                             rows |-> [i \in 1..Len(converted) |-> converted[i].value]]),
                     <<PasoValidar, PasoLimpiar, PasoParsear>>, {})

\* df_odoo[df_odoo['Codigo Neored'] == sku], in the catalog's order.
catalog_matches(sku, odoo_rows) ==
    LET same_key(o) == o.Codigo_Neored = Some(sku)
    IN  SelectSeq(odoo_rows, same_key)

\* DataFrame.merge(how='left', left_on='SKU', right_on='Codigo Neored').
RECURSIVE merge_left(_, _)
merge_left(ml_rows, odoo_rows) ==
    IF ml_rows = <<>> THEN <<>>
    ELSE LET ml == Head(ml_rows)
             matches == catalog_matches(ml.SKU, odoo_rows)
         IN  (IF matches = <<>> THEN << <<ml, SinMatch>> >>
              ELSE [k \in 1..Len(matches) |-> <<ml, matches[k]>>])
             \o merge_left(Tail(ml_rows), odoo_rows)

\* An inner join in the place of the left join.
RECURSIVE merge_inner(_, _)
merge_inner(ml_rows, odoo_rows) ==
    IF ml_rows = <<>> THEN <<>>
    ELSE LET ml == Head(ml_rows)
             matches == catalog_matches(ml.SKU, odoo_rows)
         IN  [k \in 1..Len(matches) |-> <<ml, matches[k]>>]
             \o merge_inner(Tail(ml_rows), odoo_rows)

unir_y_validar_inner(ml, odoo) ==
    [columns |-> ml.columns \cup odoo.columns \cup {"Notas/Flags"},
     rows |-> [j \in 1..Len(merge_inner(ml.rows, odoo.rows)) |->
                 JoinedRow(merge_inner(ml.rows, odoo.rows)[j][1],
                           merge_inner(ml.rows, odoo.rows)[j][2], None)]]

unir_y_validar(ml, odoo) ==
    [columns |-> ml.columns \cup odoo.columns \cup {"Notas/Flags"},
     rows |-> [j \in 1..Len(merge_left(ml.rows, odoo.rows)) |->
                 JoinedRow(merge_left(ml.rows, odoo.rows)[j][1],
                           merge_left(ml.rows, odoo.rows)[j][2], None)]]

(***************************************************************************)
(* The run of the application: leer_ml, unir_y_validar, calcular           *)
(***************************************************************************)
\* Bounds: the rows of the listing sheet and of the catalog.
MaxListingRows == 2
MaxCatalogRows == 2

RawRow(item_id, sku, fee, financing, shipping) ==
    [ITEM_ID |-> item_id, SKU |-> sku, FEE_PER_SALE_MARKETPLACE_V2 |-> fee,
     COST_OF_FINANCING_MARKETPLACE |-> financing, PRICE |-> Some(TxtMoneyPlain),
     shipping |-> shipping]

RawRows ==
    {RawRow(Some(ItemML1), Some(SkuA1), Some(TxtFeeCombo), Some(TxtPct4), Some(ShipPorMiCuenta)),
     RawRow(Some(ItemML1), Some(SkuB2), Some(TxtFeeInfeasible), None, Some(ShipGratis)),
     RawRow(Some(ItemSinPrefijo), Some(SkuA1), Some(TxtFeeCombo), Some(TxtPct4), Some(ShipClasico)),
     RawRow(Some(ItemML1), Some(SkuBlanco), Some(TxtFeeCombo), Some(TxtPct4), None)}

SeqsUpTo(S, n) == UNION {[1..k -> S] : k \in 0..n}

\* The sheet with 'SHIPPING_METHOD ', with 'SHIPPING_METHOD', without a
\* shipping column, and without 'PRICE'.
RawColumns ==
    {RequiredMl,
     (RequiredMl \ {ColShippingEspacio}) \cup {ColShipping},
     RequiredMl \ {ColShippingEspacio},
     RequiredMl \ {"PRICE"}}

sin_envio(row) == [row EXCEPT !.shipping = None]

RawFrames ==
    {[columns |-> c,
      rows |-> IF shipping_column(c) = None THEN [i \in 1..Len(rows) |-> sin_envio(rows[i])] ELSE rows] :
        c \in RawColumns, rows \in SeqsUpTo(RawRows, MaxListingRows)}

\* The catalog as unir_y_validar receives it; test_example.py hands it frames
\* that leer_odoo never touched, so a price or a quantity may be missing.
CatalogRows ==
    {OdooPart(Some(SkuA1), Some(Money(10000)), Some(Pct(210)), Some(Rat(10, 1))),
     OdooPart(Some(SkuA1), Some(Zero), Some(Zero), None),
     OdooPart(Some(SkuB2), Some(Money(10000)), Some(Pct(210)), Some(Rat(10, 1))),
     OdooPart(Some(SkuB2), None, Some(Zero), Some(Rat(10, 1))),
     OdooPart(Some(SkuA1), Some(Money(10000)), Some(Pct(210)), None)}

\* A catalog lists a row once; two of its rows may still share a code.
SinRepetir(rows) == \A i, j \in 1..Len(rows) : rows[i] = rows[j] => i = j

CatalogFrames ==
    {[columns |-> RequiredOdoo \cup {"tax_pct"}, rows |-> rows] :
        rows \in {r \in SeqsUpTo(CatalogRows, MaxCatalogRows) : SinRepetir(r)}}

\* The options of the form: its defaults, and 10 percent with taxes.
PipelineOptions ==
    {[base_financiacion |-> "tarifa", incluir_impuestos |-> FALSE,
      tipo_recargo_envio |-> Some(TxtNinguno), valor_recargo_envio |-> Numero(Zero)],
     [base_financiacion |-> "tarifa", incluir_impuestos |-> TRUE,
      tipo_recargo_envio |-> Some(TxtPorcentaje),
      valor_recargo_envio |-> Numero(Hundredths(EnvioPctEjemplo))]}

InitPipeline ==
    /\ pc = "raw"
    /\ args = NoArgs
    /\ ret = SolverFailure
    /\ raw_ml \in RawFrames
    /\ df_ml = NoFrame
    /\ df_odoo \in CatalogFrames
    /\ opts \in PipelineOptions
    /\ df = NoFrame
    /\ df_calc = NoFrame
    /\ raw_odoo = NoFrame /\ lecturas = <<>> /\ df_resultado = NoFrame
    /\ locals = <<>>

\* The entry of the log of the readers for one call.
Registro(fn, r) ==
    [fn |-> fn, raised |-> r.raised, pasos |-> r.pasos, missing_cols |-> r.missing_cols]

LeerMl ==
    /\ pc = "raw"
    /\ \E r \in {leer_ml(raw_ml)} :
           /\ IF r.raised
              THEN pc' = "error" /\ df_ml' = df_ml
              ELSE pc' = "loaded" /\ df_ml' = r.value
           /\ lecturas' = Append(lecturas, Registro("leer_ml", r))
    /\ UNCHANGED <<args, ret, raw_ml, df_odoo, opts, df, df_calc, locals, raw_odoo, df_resultado>>

LeerOdoo ==
    /\ pc = "loaded"
    /\ \E r \in {leer_odoo(raw_odoo)} :
           /\ IF r.raised
              THEN pc' = "error" /\ df_odoo' = df_odoo
              ELSE pc' = "read" /\ df_odoo' = r.value
           /\ lecturas' = Append(lecturas, Registro("leer_odoo", r))
    /\ UNCHANGED <<args, ret, raw_ml, df_ml, opts, df, df_calc, locals, raw_odoo, df_resultado>>

UnirYValidar ==
    /\ pc = "loaded"
    /\ df' = unir_y_validar(df_ml, df_odoo)
    /\ pc' = "merged"
    /\ UNCHANGED <<args, ret, raw_ml, df_ml, df_odoo, opts, df_calc, locals, raw_odoo, lecturas, df_resultado>>

NextPipeline == LeerMl \/ UnirYValidar \/ Calcular \/ PrepararResultadoFinal

SpecPipeline == InitPipeline /\ [][NextPipeline]_vars

(***************************************************************************)
(* Properties of the linker and of the run (checked under SpecPipeline)    *)
(***************************************************************************)
Merged == pc \in {"merged", "calculated"}
JoinedIdx == 1..Len(df.rows)

RowSinMatch(r) == IsNa(r.Codigo_Neored)
RowPrecioFaltante(r) == IsNa(r.Precio_Tarifa) \/ r.Precio_Tarifa = Some(Zero)
RowStockFaltante(r) == IsNa(r.Cantidad_a_mano)

\* The flags of the conditions that hold, in the order of the checks.
ExpectedFlags(r) ==
    (IF RowSinMatch(r) THEN <<FlagSinMatch>> ELSE <<>>)
    \o (IF RowPrecioFaltante(r) THEN <<FlagPrecioFaltante>> ELSE <<>>)
    \o (IF RowStockFaltante(r) THEN <<FlagStockFaltante>> ELSE <<>>)

\* '; '.join(flags)
RECURSIVE JoinFlags(_)
JoinFlags(flags) ==
    IF Len(flags) <= 1 THEN flags
    ELSE <<Head(flags), Separador>> \o JoinFlags(Tail(flags))

\* C12: the notes of every joined row are the flags of the conditions that
\* hold (no match; tariff missing or zero; quantity missing), in that order,
\* joined by '; ', with no separator at either end.
C12_FlagOrder ==
    Merged => \A i \in JoinedIdx :
        df.rows[i].Notas_Flags = JoinFlags(ExpectedFlags(df.rows[i]))

C12_Witness ==
    /\ Merged
    /\ \E i \in JoinedIdx :
        /\ ~RowSinMatch(df.rows[i])
        /\ df.rows[i].Precio_Tarifa = Some(Zero)
        /\ RowStockFaltante(df.rows[i])
        /\ df.rows[i].Notas_Flags = <<FlagPrecioFaltante, Separador, FlagStockFaltante>>

\* C13 as claimed: a row without a catalog match has the notes
\* 'SKU no encontrado en Odoo; Precio Tarifa faltante'.
C13_Original_UnmatchedTwoFlags ==
    Merged => \A i \in JoinedIdx :
        RowSinMatch(df.rows[i]) =>
            df.rows[i].Notas_Flags = <<FlagSinMatch, Separador, FlagPrecioFaltante>>

\* C13 as amended: a row without a catalog match has every catalog field
\* missing, the quantity included, and its notes are
\* 'SKU no encontrado en Odoo; Precio Tarifa faltante; Stock faltante'.
C13_UnmatchedThreeFlags ==
    Merged => \A i \in JoinedIdx :
        RowSinMatch(df.rows[i]) =>
            /\ IsNa(df.rows[i].Precio_Tarifa)
            /\ IsNa(df.rows[i].Cantidad_a_mano)
            /\ df.rows[i].Notas_Flags =
                 <<FlagSinMatch, Separador, FlagPrecioFaltante, Separador, FlagStockFaltante>>

C13_Witness ==
    /\ Merged
    /\ \E i \in JoinedIdx :
        /\ df.rows[i].SKU = SkuA1
        /\ RowSinMatch(df.rows[i])
        /\ Len(df.rows[i].Notas_Flags) = 5
        /\ df.rows[i].Notas_Flags[5] = FlagStockFaltante

\* C14: after unir_y_validar and calcular a row's notes are empty exactly
\* when none of the four conditions holds for it: no match, tariff missing or
\* zero, quantity missing, infeasible percentages.
C14_NotesEmptiness ==
    Calculated => \A i \in RowIdx :
        (df_calc.rows[i].Notas_Flags = <<>>)
            <=> ~(\/ RowSinMatch(df.rows[i])
                  \/ RowPrecioFaltante(df.rows[i])
                  \/ RowStockFaltante(df.rows[i])
                  \/ RowInfeasible(i))

C14_Witness ==
    /\ Calculated
    /\ \E i \in RowIdx : df_calc.rows[i].Notas_Flags = <<>>
    /\ \E i \in RowIdx :
        /\ ExpectedFlags(df.rows[i]) = <<>>
        /\ RowInfeasible(i)
        /\ df_calc.rows[i].Notas_Flags = <<MensajeSinSolucion>>

\* The rows of the catalog with the key of a listing row, at least 1 counted.
Multiplicity(i) ==
    LET n == Cardinality({k \in 1..Len(df_odoo.rows) :
                            df_odoo.rows[k].Codigo_Neored = Some(df_ml.rows[i].SKU)})
    IN  IF n = 0 THEN 1 ELSE n
RECURSIVE RowsBefore(_)
RowsBefore(i) == IF i = 1 THEN 0 ELSE RowsBefore(i - 1) + Multiplicity(i - 1)

\* C15: every listing row is in the joined frame with its listing fields
\* unchanged, the rows of one listing row stand together and follow the
\* listing's order, a row without match has every catalog field missing, and
\* the joined frame is a function of the two inputs.
C15_LeftJoinPreservesListing ==
    Merged =>
        /\ Len(df.rows) = RowsBefore(Len(df_ml.rows) + 1)
        /\ \A i \in 1..Len(df_ml.rows) : \A k \in 1..Multiplicity(i) :
            LET r == df.rows[RowsBefore(i) + k]
            IN  /\ \A f \in DOMAIN df_ml.rows[i] : r[f] = df_ml.rows[i][f]
                /\ (\A o \in 1..Len(df_odoo.rows) :
                        df_odoo.rows[o].Codigo_Neored # Some(df_ml.rows[i].SKU))
                   => /\ IsNa(r.Codigo_Neored) /\ IsNa(r.Precio_Tarifa)
                      /\ IsNa(r.tax_pct) /\ IsNa(r.Cantidad_a_mano)
        /\ df = unir_y_validar(df_ml, df_odoo)

C15_Witness ==
    /\ Merged
    /\ Len(df_ml.rows) = 2 /\ Len(df.rows) = 2
    /\ df.rows[1].SKU = SkuB2 /\ IsNa(df.rows[1].Codigo_Neored)
    /\ df.rows[2].SKU = SkuA1 /\ df.rows[2].Codigo_Neored = Some(SkuA1)

\* C20 as claimed: a listing sheet with every other required column and no
\* shipping-method column passes leer_ml's validation and runs through
\* unir_y_validar and calcular, every row with a shipping surcharge of 0.0.
C20_ShippingColumnOptional ==
    (raw_ml.columns = RequiredMl \ {ColShippingEspacio} /\ pc # "raw") =>
        /\ pc # "error"
        /\ Calculated => \A i \in RowIdx : df_calc.rows[i].Recargo_envio = Zero

(***************************************************************************)
(* The option base_financiacion (checked under Spec)                       *)
(***************************************************************************)
\* calcular on the joined frame of the state, with a given financing base
\* and the other options of the run.
CalcularConBase(base) ==
    calcular(df, base, opts.incluir_impuestos, opts.tipo_recargo_envio,
             opts.valor_recargo_envio).frame

\* The base of the financing charge as the form's help text declares it.
FinancingBaseDeclared(i, base) ==
    IF base = "tarifa" THEN locals[i].tarifa_neta_base
    ELSE RAdd(locals[i].tarifa_neta_base,
              RAdd(RMul(locals[i].tarifa_neta_base, df.rows[i].fee_pct), df.rows[i].fee_fixed))

\* C21 as claimed: the financing charge of a feasible row is financing_pct
\* times the tariff base under 'tarifa' and financing_pct times the tariff
\* plus the marketplace surcharges under 'tarifa_mas_ml', and the two modes
\* give different financing charges whenever financing_pct > 0 and the
\* marketplace surcharges are > 0.
C21_DeclaredFinancingBase ==
    Calculated => \A i \in RowIdx :
        (~RowInfeasible(i) /\ RLt(Zero, locals[i].tarifa_neta_base)) =>
            /\ df_calc.rows[i].Recargo_financiacion =
                 Round2(RMul(FinancingBaseDeclared(i, opts.base_financiacion),
                             df.rows[i].financing_pct))
            /\ (RLt(Zero, df.rows[i].financing_pct)
                /\ (RLt(Zero, df.rows[i].fee_pct) \/ RLt(Zero, df.rows[i].fee_fixed)))
               => CalcularConBase("tarifa").rows[i].Recargo_financiacion
                    # CalcularConBase("tarifa_mas_ml").rows[i].Recargo_financiacion

\* The financing base the run did not use.
OtherBase == IF opts.base_financiacion = "tarifa" THEN "tarifa_mas_ml" ELSE "tarifa"

C23_OneRecordPerListingRow ==
    Merged =>
        /\ Len(df.rows) = Len(df_ml.rows)
        /\ \A i \in 1..Len(df_ml.rows) : df.rows[i].SKU = df_ml.rows[i].SKU

\* The number N of a text 'N%': digits with at most one decimal point,
\* followed by the percent sign; missing for any other text.
ExplicitPercent(text) ==
    IF IsNa(text) \/ Len(Val(text)) < 2 \/ Val(text)[Len(Val(text))] # "%" THEN None
    ELSE LET number == SubSeq(Val(text), 1, Len(Val(text)) - 1)
         IN  IF \A i \in 1..Len(number) : number[i] \in DigitClass \cup {"."}
             THEN PyFloat(number)
             ELSE None

\* C29 as claimed: a text 'N%' with an explicit percent sign is normalized
\* by parse_pct, and by the percentage part of parse_fee_combo, to N / 100,
\* also when N <= 1 ('1%' gives 0.01, '0.5%' gives 0.005).
C29_ExplicitPercentSign ==
    (Parsed /\ ~IsNa(ExplicitPercent(args.text))) =>
        /\ ret.fn = "parse_pct" =>
             ret.out.value = RDiv(Val(ExplicitPercent(args.text)), Rat(100, 1))
        /\ ret.fn = "parse_fee_combo" =>
             ret.out.value[1] = RDiv(Val(ExplicitPercent(args.text)), Rat(100, 1))

(***************************************************************************)
(* The commission breakdown (checked under Spec)                           *)
(***************************************************************************)
\* C30 as claimed: on every row of calcular's output, feasible or not, the
\* emitted 'Cargo por vender ($)' is exactly the emitted 'Recargo % ML
\* (importe)' plus the emitted 'Recargo fijo ML ($)'.
C30_Original_BreakdownExact ==
    Calculated => \A i \in RowIdx :
        df_calc.rows[i].Cargo_por_vender =
            RAdd(df_calc.rows[i].Recargo_pct_ML, df_calc.rows[i].Recargo_fijo_ML)

\* C30 as amended: on every row the breakdown adds up before rounding (the
\* solver's commission charge is the listing price times the commission
\* percentage plus the fixed charge, all three 0.0 on an infeasible row);
\* each of the three columns is rounded to 2 decimals on its own, so the
\* emitted values add up to within 0.01, and exactly on an infeasible row.
C30_BreakdownBeforeRounding ==
    Calculated => \A i \in RowIdx :
        LET c == locals[i].calculo
            r == df_calc.rows[i]
            pct == RMul(c.precio_publicacion, df.rows[i].fee_pct)
            fijo == IF c.denominador_invalido THEN Zero ELSE df.rows[i].fee_fixed
            gap == RSub(r.Cargo_por_vender, RAdd(r.Recargo_pct_ML, r.Recargo_fijo_ML))
        IN  /\ c.cargo_por_vender = RAdd(pct, fijo)
            /\ r.Cargo_por_vender = Round2(c.cargo_por_vender)
            /\ r.Recargo_pct_ML = Round2(pct)
            /\ r.Recargo_fijo_ML = Round2(fijo)
            /\ RLe(gap, Money(1)) /\ RLe(Money(-1), gap)
            /\ c.denominador_invalido => gap = Zero

C30_Witness ==
    /\ Calculated
    /\ df = RoundingFrame
    /\ df_calc.rows[1].Cargo_por_vender = Money(2662)
    /\ df_calc.rows[1].Recargo_pct_ML = Money(1568)
    /\ df_calc.rows[1].Recargo_fijo_ML = Money(1095)

(***************************************************************************)
(* Rows of calcular are independent (checked under SpecPipeline)           *)
(***************************************************************************)
\* calcular with the options of the run on a frame of the given rows.
CalcularRows(rows) ==
    calcular([columns |-> df.columns, rows |-> rows], opts.base_financiacion,
             opts.incluir_impuestos, opts.tipo_recargo_envio,
             opts.valor_recargo_envio).frame.rows

\* C28: the record calcular emits for a joined row is the record it emits
\* when that row is processed alone, whatever rows stand before or after it
\* (the frames of the runs hold the rows in every order); an infeasible or
\* flagged row changes no field of another row.
C28_PerRowIndependence ==
    Calculated =>
        \A i \in RowIdx : df_calc.rows[i] = CalcularRows(<<df.rows[i]>>)[1]

C28_Witness ==
    /\ Calculated
    /\ \E i, j \in RowIdx :
        /\ RowInfeasible(i)
        /\ df_calc.rows[i].Notas_Flags # <<>>
        /\ ~RowInfeasible(j)
        /\ df_calc.rows[j].Notas_Flags = <<>>
        /\ RLt(Zero, df_calc.rows[j].Recargo_fijo_ML)
        /\ RLt(Zero, df_calc.rows[j].IVA)
        /\ RLt(Zero, df_calc.rows[j].Precio_final)

(***************************************************************************)
(* The notes along the run (checked under SpecPipeline)                    *)
(***************************************************************************)
Final == pc = "final"

IsPrefix(s, t) == Len(s) <= Len(t) /\ SubSeq(t, 1, Len(s)) = s

\* C24: along unir_y_validar, calcular and preparar_resultado_final the
\* notes of a row at a later stage start with its notes at the earlier
\* stage. calcular leaves the linker's flags as they are and, on an
\* infeasible row only, appends the infeasibility flag after them with the
\* separator '; ', or as the sole content when the notes were empty;
\* preparar_resultado_final returns one row per row with the notes unchanged.
C24_NotesOnlyExtended ==
    /\ (Calculated \/ Final) => \A i \in RowIdx :
        LET before == df.rows[i].Notas_Flags
            after == df_calc.rows[i].Notas_Flags
        IN  /\ IsPrefix(before, after)
            /\ RowInfeasible(i) =>
                 after = IF before = <<>> THEN <<MensajeSinSolucion>>
                         ELSE before \o <<Separador, MensajeSinSolucion>>
            /\ ~RowInfeasible(i) => after = before
    /\ Final =>
        /\ Len(df_resultado.rows) = Len(df_calc.rows)
        /\ \A i \in RowIdx :
            df_resultado.rows[i].Notas_Flags = df_calc.rows[i].Notas_Flags

C24_Witness ==
    /\ Final
    /\ \E i \in RowIdx :
        /\ df.rows[i].Notas_Flags = <<FlagPrecioFaltante>>
        /\ df_resultado.rows[i].Notas_Flags =
             <<FlagPrecioFaltante, Separador, MensajeSinSolucion>>

(***************************************************************************)
(* The stock columns: calcular and preparar_resultado_final on one row     *)
(***************************************************************************)
\* Bound of the grid of on-hand quantities, counted in halves of a unit.
MaxStockHalves == 5

\* 'Cantidad a mano' is a float column: missing, whole (250 in the example
\* catalog), negative, or fractional for goods kept by weight or length.
StockQuantities ==
    {None, Some(Rat(250, 1)), Some(Rat(27, 10))}
    \cup {Some(Rat(k, 2)) : k \in (-MaxStockHalves)..MaxStockHalves}

StockFrames ==
    { [columns |-> {ColShippingEspacio},
       rows |-> << JoinedRow(MlPart("SKU", fp, Money(FijoMLStep), Pct(EjemploFinanciacion),
                                    Some(ShipPorMiCuenta)),
                             OdooPart(Some("SKU"), Some(Money(10000)), Some(Pct(210)), q),
                             None) >>] :
        q \in StockQuantities, fp \in {Pct(EjemploComision), Pct(7 * EjemploComision)} }

ResultOptions ==
    {[base_financiacion |-> "tarifa", incluir_impuestos |-> i,
      tipo_recargo_envio |-> r[1], valor_recargo_envio |-> r[2]] :
        i \in BOOLEAN,
        r \in {<<Some(TxtNinguno), Numero(Zero)>>,
               <<Some(TxtFijo), Numero(Money(EnvioFijoStep))>>}}

InitResultado ==
    /\ pc = "merged"
    /\ args = NoArgs
    /\ ret = SolverFailure
    /\ raw_ml = NoFrame /\ df_ml = NoFrame /\ df_odoo = NoFrame
    /\ opts \in ResultOptions
    /\ df \in StockFrames
    /\ df_calc = NoFrame
    /\ raw_odoo = NoFrame /\ lecturas = <<>> /\ df_resultado = NoFrame
    /\ locals = <<>>

NextResultado == Calcular \/ PrepararResultadoFinal

SpecResultado == InitResultado /\ [][NextResultado]_vars

\* C22 as claimed: '% Stock' is round(on-hand quantity * percentage / 100)
\* as an integer, a missing quantity counting as 0, whatever the pricing
\* fields of the row; and with a percentage of 100 the '% Stock' of every
\* row equals its 'Stock', for every on-hand quantity.
C22_StockScaling ==
    Final => \A i \in 1..Len(df_resultado.rows) :
        LET on_hand == FillNaZero(df.rows[i].Cantidad_a_mano)
            r == df_resultado.rows[i]
        IN  /\ r.pct_Stock =
                 RoundInt(RDiv(RMul(on_hand, args.porcentaje_stock), Rat(100, 1)))
            /\ args.porcentaje_stock = Rat(100, 1) => r.pct_Stock = r.Stock

(***************************************************************************)
(* The readers: leer_ml, then leer_odoo, on the two sheets                 *)
(***************************************************************************)
RawCatalogRow(codigo, precio, cantidad, impuestos) ==
    [Codigo_Neored |-> codigo, Precio_Tarifa |-> precio,
     Cantidad_a_mano |-> cantidad, Impuestos_del_cliente |-> impuestos]

\* Rows of the catalog sheet: a product, a row without code, and a row whose
\* code is a blank cell text, with a price that is not a number.
RawCatalogRows ==
    {RawCatalogRow(Some(SkuA1), Numero(Money(10000)), Numero(Rat(10, 1)), Some(TxtIva21)),
     RawCatalogRow(None, Numero(Money(10000)), SinValor, None),
     RawCatalogRow(Some(SkuBlanco), TextoNoNumerico, SinValor, Some(TxtIva105))}

\* The sheet with every required column, without 'Precio Tarifa', and
\* without 'Codigo Neored' and 'Nombre'.
RawCatalogColumns ==
    {RequiredOdoo, RequiredOdoo \ {"Precio Tarifa"}, RequiredOdoo \ {"Codigo Neored", "Nombre"}}

RawCatalogFrames ==
    {[columns |-> c, rows |-> rows] :
        c \in RawCatalogColumns, rows \in SeqsUpTo(RawCatalogRows, MaxCatalogRows)}

InitReaders ==
    /\ pc = "raw"
    /\ args = NoArgs
    /\ ret = SolverFailure
    /\ raw_ml \in RawFrames
    /\ df_ml = NoFrame
    /\ raw_odoo \in RawCatalogFrames
    /\ df_odoo = NoFrame
    /\ opts = NoOpts
    /\ df = NoFrame
    /\ df_calc = NoFrame
    /\ lecturas = <<>> /\ df_resultado = NoFrame
    /\ locals = <<>>

NextReaders == LeerMl \/ LeerOdoo

SpecReaders == InitReaders /\ [][NextReaders]_vars

\* The required columns a sheet lacks, the shipping column counted as
\* present under either of its two names.
MissingMl ==
    RequiredMl \ (raw_ml.columns
                  \cup (IF ColShipping \in raw_ml.columns THEN {ColShippingEspacio} ELSE {}))
MissingOdoo == RequiredOdoo \ raw_odoo.columns

RowSteps == {PasoLimpiar, PasoParsear}
StepsOf(l) == {l.pasos[k] : k \in 1..Len(l.pasos)}

\* C25: when a sheet lacks a required column, the reader raises an error
\* that names exactly the missing columns, it has made no row filtering and
\* no field normalization, and it returns no frame; when no column is
\* missing it validates first, filters and normalizes afterwards, and
\* returns the frame. Nothing runs after a reader has raised.
C25_ValidationFirstAndFatal ==
    /\ \A k \in 1..Len(lecturas) :
        LET l == lecturas[k]
            missing == IF l.fn = "leer_ml" THEN MissingMl ELSE MissingOdoo
            returned == IF l.fn = "leer_ml" THEN df_ml ELSE df_odoo
        IN  /\ missing # {} =>
                 /\ l.raised
                 /\ l.missing_cols = missing
                 /\ StepsOf(l) \cap RowSteps = {}
                 /\ returned = NoFrame
                 /\ pc = "error"
                 /\ k = Len(lecturas)
            /\ missing = {} =>
                 /\ ~l.raised
                 /\ l.pasos = <<PasoValidar, PasoLimpiar, PasoParsear>>
    /\ (pc = "raw") <=> (lecturas = <<>>)
    /\ Len(lecturas) <= 2

C25_Witness ==
    /\ pc = "error"
    /\ Len(lecturas) = 2
    /\ lecturas[2].fn = "leer_odoo"
    /\ lecturas[2].missing_cols = {"Codigo Neored", "Nombre"}
    /\ Len(raw_odoo.rows) = 2
    /\ df_odoo = NoFrame

\* C26 as claimed: every listing row leer_ml keeps has an identifier that
\* starts with 'ML' and a product code that is neither missing nor blank,
\* every catalog row leer_odoo keeps has a product code that is neither
\* missing nor an empty or blank text, the rows kept are rows of the sheet
\* in the sheet's order, and the filters do not raise.
C26_RowFilters ==
    /\ pc \in {"loaded", "read"} =>
        /\ \A i \in 1..Len(df_ml.rows) :
            /\ ~IsNa(df_ml.rows[i].ITEM_ID)
            /\ StartsWith(Val(df_ml.rows[i].ITEM_ID), TxtPrefijoML)
            /\ Strip(df_ml.rows[i].SKU) # <<>>
        /\ Len(df_ml.rows) <= Len(raw_ml.rows)
        /\ \A i \in 1..Len(df_ml.rows) : \E j \in i..Len(raw_ml.rows) :
            /\ raw_ml.rows[j].ITEM_ID = df_ml.rows[i].ITEM_ID
            /\ raw_ml.rows[j].SKU = Some(df_ml.rows[i].SKU)
    /\ pc = "read" =>
        /\ \A i \in 1..Len(df_odoo.rows) :
            /\ ~IsNa(df_odoo.rows[i].Codigo_Neored)
            /\ Strip(Val(df_odoo.rows[i].Codigo_Neored)) # <<>>
        /\ Len(df_odoo.rows) <= Len(raw_odoo.rows)
        /\ \A i \in 1..Len(df_odoo.rows) : \E j \in i..Len(raw_odoo.rows) :
            raw_odoo.rows[j].Codigo_Neored = df_odoo.rows[i].Codigo_Neored
    /\ \A k \in 1..Len(lecturas) :
        lecturas[k].raised => lecturas[k].missing_cols # {}

=============================================================================
